---- MODULE Spec2Model ----
(***************************************************************************)
(* Verification model of the pole-optimization core:                       *)
(*   - BpModel: the entity model and its tile-bucket index                 *)
(*   - Moving2DWindow / PoleWindows: the sliding window over the index     *)
(*   - the maximally-connected pole graph                                  *)
(*   - the set-cover ILP                                                   *)
(*   - WeightedMSTConnector / PrettyPoleConnector                          *)
(*   - BlueprintEntities: import from and export to blueprint entities     *)
(*   - optimize_poles: the driver from the blueprint to the result         *)
(*                                                                         *)
(* Units.  Map-space coordinates (f64 in the source) are kept as integers  *)
(* counted in quarter tiles: the map point (0.5, 1.0) is <<2, 4>>.  Every  *)
(* position, collision box, supply radius and wire distance of the model   *)
(* is a multiple of a quarter tile, so floor/ceil/round and the distance   *)
(* comparisons are computed exactly.  Tile-space coordinates are integers. *)
(***************************************************************************)
EXTENDS Integers, Sequences, FiniteSets, TLC

VARIABLES
    \* ---- BpModel (src/src/bp_model/mod.rs:119) ----
    by_tile,        \* HashMap<TilePosition, Vec<EntityId>>
    all_entities,   \* HashMap<EntityId, ModelEntity>
    next_id,        \* EntityId
    \* ---- Moving2DWindow over the model (src/src/pole_windows.rs:40) ----
    top_left,       \* TilePosition
    size,           \* i32
    current_counts, \* HashMap<Id, u32>
    requested,      \* history: the top-left asked for by the last new/jump_to/move_to
    last_move,      \* history: how the last call moved the window
    \* ---- PoleWindows<P> (src/src/pole_windows.rs:201) ----
    pole_windows,   \* windows_by_proto of the PoleWindows of each PoleWindowParams
    \* ---- the pole graph built from the model (src/src/pole_graph.rs:16) ----
    pole_graph,     \* PoleGraph = UnGraph<WorldEntity, f64>, once built
    \* ---- SetCoverILPSolver::solve (src/src/pole_solver/set_cover_ilp.rs:123) ----
    cand_graph,     \* CandPoleGraph handed to solve
    solution,       \* what solve returned
    \* ---- connect_poles (src/src/pole_solver/connections.rs) ----
    conn_graph,     \* graph: the graph handed to connect_poles
    res_graph,      \* result: the graph being built
    sort_edges,     \* BinaryHeap<MinScored<f64, (f64, (NodeIndex, NodeIndex))>>
    uf,             \* UnionFind over the node indices
    pretty_edges,   \* the sorted edges the second stage has still to try
    conn_stage,     \* where connect_poles stands: "idle", "mst", "pretty", "done"
    first_result,   \* history: what the first of two calls of connect_poles returned
    \* ---- bookkeeping of the run ----
    panicked,       \* TRUE once an operation has aborted the process (panic!/unwrap)
    issued,         \* history: the ids handed out so far, in order, each with the set
                    \* of ids that had been freed (removed) before it was handed out
    last_call,      \* history: the last call made on the model, its arguments and
                    \* what it returned
    \* ---- BlueprintEntities (src/src/better_bp.rs:212) ----
    entities,       \* HashMap<EntityId, BlueprintEntity>, once a blueprint is read
    exported        \* history: the last export of entities and what reading it back gave

modelVars == <<by_tile, all_entities, next_id>>
windowVars == <<top_left, size, current_counts, requested, last_move, pole_windows>>
connectorVars == <<conn_graph, res_graph, sort_edges, uf, pretty_edges, conn_stage,
                   first_result>>
solverVars == <<pole_graph, cand_graph, solution, connectorVars>>
blueprintVars == <<entities, exported>>

-----------------------------------------------------------------------------
(* Bounds of the model *)

\* adds stop once next_id has passed MaxId (the u32 counter is not run to its end)
MaxId == 3
\* entity numbers a blueprint may carry are 1..MaxBpId
MaxBpId == 3
\* a blueprint handed to from_bp_entities has at most MaxBpEntities entities
MaxBpEntities == 2

\* tiles at which the entities of the model runs are anchored
PlaceXs == 0..2
PlaceYs == 0..0

Ids == 1..(MaxId + 1)

-----------------------------------------------------------------------------
(* Arithmetic helpers *)

Abs(a) == IF a < 0 THEN -a ELSE a
Min(a, b) == IF a <= b THEN a ELSE b
Max(a, b) == IF a >= b THEN a ELSE b

\* f64::floor / f64::ceil of a coordinate given in quarter tiles, in tiles
FloorTile(q) == q \div 4
CeilTile(q) == -((-q) \div 4)

SqLen(v) == v[1] * v[1] + v[2] * v[2]
SqDist(p, q) == SqLen(<<p[1] - q[1], p[2] - q[2]>>)

SetMax(S) == CHOOSE m \in S : \A x \in S : x <= m

-----------------------------------------------------------------------------
(* Prototype catalog: the entity kinds the model runs draw from.           *)
(* collision_box is [minx, miny, maxx, maxy] in quarter tiles.             *)

NoPole == [is_some |-> FALSE]
SomePole(supply, wire) == [is_some |-> TRUE, supply_radius |-> supply, wire_distance |-> wire]

Box(x0, y0, x1, y1) == [minx |-> x0, miny |-> y0, maxx |-> x1, maxy |-> y1]

Prototypes ==
    [ pole    |-> [type_ |-> "electric-pole", tile_width |-> 1, tile_height |-> 1,
                   collision_box |-> Box(-2, -2, 2, 2), uses_power |-> FALSE,
                   pole_data |-> SomePole(6, 4)],
      bigpole |-> [type_ |-> "electric-pole", tile_width |-> 2, tile_height |-> 2,
                   collision_box |-> Box(-4, -4, 4, 4), uses_power |-> FALSE,
                   pole_data |-> SomePole(8, 12)],
      finepole |-> [type_ |-> "electric-pole", tile_width |-> 1, tile_height |-> 1,
                   collision_box |-> Box(-1, -1, 1, 1), uses_power |-> FALSE,
                   pole_data |-> SomePole(6, 9)],
      smallpole |-> [type_ |-> "electric-pole", tile_width |-> 1, tile_height |-> 1,
                   collision_box |-> Box(-2, -2, 2, 2), uses_power |-> FALSE,
                   pole_data |-> SomePole(6, 10)],
      mediumpole |-> [type_ |-> "electric-pole", tile_width |-> 1, tile_height |-> 1,
                   collision_box |-> Box(-2, -2, 2, 2), uses_power |-> FALSE,
                   pole_data |-> SomePole(10, 18)],
      testpole |-> [type_ |-> "electric-pole", tile_width |-> 1, tile_height |-> 1,
                   collision_box |-> Box(-2, -2, 2, 2), uses_power |-> FALSE,
                   pole_data |-> SomePole(10, 30)],
      machine |-> [type_ |-> "assembling-machine", tile_width |-> 1, tile_height |-> 1,
                   collision_box |-> Box(-2, -2, 2, 2), uses_power |-> TRUE,
                   pole_data |-> NoPole],
      widemachine |-> [type_ |-> "assembling-machine", tile_width |-> 2, tile_height |-> 1,
                   collision_box |-> Box(-4, -2, 4, 2), uses_power |-> TRUE,
                   pole_data |-> NoPole],
      splitter |-> [type_ |-> "splitter", tile_width |-> 2, tile_height |-> 1,
                   collision_box |-> Box(-4, -2, 4, 2), uses_power |-> FALSE,
                   pole_data |-> NoPole] ]

ProtoNames == DOMAIN Prototypes

IsPoleProto(name) == Prototypes[name].pole_data.is_some

-----------------------------------------------------------------------------
(* Geometry: position.rs *)

\* CardinalDirection::from_u8_rounding: 0 North, 1 East, 2 South, 3 West
FromU8Rounding(dir) == (dir % 8) \div 2

\* Rotate for Box2D
RotateBox(b, card) ==
    CASE card = 0 -> b
      [] card = 1 -> Box(-b.maxy, b.minx, -b.miny, b.maxx)
      [] card = 2 -> Box(-b.maxx, -b.maxy, -b.minx, -b.miny)
      [] OTHER    -> Box(b.miny, -b.maxx, b.maxy, -b.minx)

Translate(b, v) == Box(b.minx + v[1], b.miny + v[2], b.maxx + v[1], b.maxy + v[2])

\* BoundingBoxExt::round_out_to_tiles: floor of min, ceil of max (a tile box)
RoundOutToTiles(b) ==
    Box(FloorTile(b.minx), FloorTile(b.miny), CeilTile(b.maxx), CeilTile(b.maxy))

\* IterTiles for TileBoundingBox: min <= t < max
IterTiles(tb) == {<<x, y>> : x \in tb.minx..(tb.maxx - 1), y \in tb.miny..(tb.maxy - 1)}

\* BoundingBoxExt::around_point
AroundPoint(center, radius) ==
    Box(center[1] - radius, center[2] - radius, center[1] + radius, center[2] + radius)

-----------------------------------------------------------------------------
(* WorldEntity / ModelEntity *)

WorldEntity(proto, pos, dir) == [prototype |-> proto, position |-> pos, direction |-> dir]

LocalBBox(e) == RotateBox(Prototypes[e.prototype].collision_box, FromU8Rounding(e.direction))
WorldBBox(e) == Translate(LocalBBox(e), e.position)
EntityTiles(e) == IterTiles(RoundOutToTiles(WorldBBox(e)))

UsesPower(e) ==
    /\ ~Prototypes[e.prototype].pole_data.is_some
    /\ Prototypes[e.prototype].uses_power

ExtraNone == [kind |-> "None"]
ExtraPole(conns) == [kind |-> "Pole", connections |-> conns]

\* ModelEntity::new_empty
NewEmpty(id, entity) ==
    [id |-> id, entity |-> entity,
     extra |-> IF IsPoleProto(entity.prototype) THEN ExtraPole({}) ELSE ExtraNone]

-----------------------------------------------------------------------------
(* BpModel (bp_model/mod.rs).  The operations are written on a record m    *)
(* holding the struct's fields, plus `panicked` for an aborted process.    *)

EmptyMap == [k \in {} |-> k]

\* BpModel::new
NewModel == [by_tile |-> EmptyMap, all_entities |-> EmptyMap, next_id |-> 1, panicked |-> FALSE]

\* BpModel::occupied
Occupied(m, tile) == tile \in DOMAIN m.by_tile

\* by_tile.entry(tile).or_default().push(id), for every tile of the set T
PushToBuckets(bt, T, id) ==
    [t \in (DOMAIN bt) \cup T |->
        IF t \in T
        THEN Append(IF t \in DOMAIN bt THEN bt[t] ELSE <<>>, id)
        ELSE bt[t]]

\* BpModel::add_internal
AddInternal(m, me) ==
    LET pushed == PushToBuckets(m.by_tile, EntityTiles(me.entity), me.id)
    IN  IF me.id \in DOMAIN m.all_entities
        THEN [m EXCEPT !.by_tile = pushed, !.panicked = TRUE]
        ELSE [m EXCEPT !.by_tile = pushed,
                       !.all_entities = [i \in (DOMAIN m.all_entities) \cup {me.id} |->
                                            IF i = me.id THEN me ELSE m.all_entities[i]]]

\* BpModel::add_overlap: the model after the call; the id returned is m.next_id
AddOverlapM(m, entity) ==
    AddInternal([m EXCEPT !.next_id = m.next_id + 1], NewEmpty(m.next_id, entity))

\* BpModel::can_place
CanPlace(m, entity) == \A tile \in EntityTiles(entity) : ~Occupied(m, tile)

\* mutant of AddNoOverlapM: one free tile is enough to insert
AddNoOverlapM_AnyTileFree(m, entity) ==
    IF \E tile \in EntityTiles(entity) : ~Occupied(m, tile)
    THEN AddOverlapM(m, entity)
    ELSE m

\* BpModel::add_no_overlap: the model after the call
AddNoOverlapM(m, entity) ==
    IF \A tile \in EntityTiles(entity) : ~Occupied(m, tile)
    THEN AddOverlapM(m, entity)
    ELSE m

\* Vec::retain(|x| x != id)
SeqWithout(s, id) == SelectSeq(s, LAMBDA x : x # id)

\* mutant of RemoveM: the emptied buckets are left in the index
RemoveM_KeepsEmptyBuckets(m, id) ==
    IF id \notin DOMAIN m.all_entities
    THEN [m EXCEPT !.panicked = TRUE]
    ELSE [m EXCEPT !.all_entities = [i \in (DOMAIN m.all_entities) \ {id} |-> m.all_entities[i]],
                   !.by_tile = [t \in DOMAIN m.by_tile |-> SeqWithout(m.by_tile[t], id)]]

\* BpModel::remove (for a stored id; a missing id fails the unwrap)
RemoveM(m, id) ==
    IF id \notin DOMAIN m.all_entities
    THEN [m EXCEPT !.panicked = TRUE]
    ELSE LET entity == m.all_entities[id].entity
             T == EntityTiles(entity)
             kept == {t \in DOMAIN m.by_tile : t \notin T \/ SeqWithout(m.by_tile[t], id) # <<>>}
         IN  IF \E t \in T : t \notin DOMAIN m.by_tile
             THEN [m EXCEPT !.panicked = TRUE,
                            !.all_entities = [i \in (DOMAIN m.all_entities) \ {id} |-> m.all_entities[i]]]
             ELSE [m EXCEPT !.all_entities = [i \in (DOMAIN m.all_entities) \ {id} |-> m.all_entities[i]],
                            !.by_tile = [t \in kept |->
                                            IF t \in T THEN SeqWithout(m.by_tile[t], id)
                                            ELSE m.by_tile[t]]]

\* the loop `for id in to_remove { self.remove(&id) }` of BpModel::retain
RECURSIVE RemoveAllM(_, _)
RemoveAllM(m, to_remove) ==
    IF to_remove = {} THEN m
    ELSE LET id == CHOOSE i \in to_remove : TRUE
         IN  RemoveAllM(RemoveM(m, id), to_remove \ {id})

\* The predicates the callers hand to retain
\*   "not_pole"     remove_all_poles: |e| !e.prototype.is_pole()
\*   "not_listed"   optimize_poles:   |e| !pole_prototypes.contains(&e.prototype), for {pole}
\*   "uses_power"   |e| e.uses_power()
RetainPredicates == {"not_pole", "not_listed", "uses_power"}

Keeps(pred, me) ==
    CASE pred = "not_pole"   -> ~IsPoleProto(me.entity.prototype)
      [] pred = "not_listed" -> me.entity.prototype # "pole"
      [] OTHER               -> UsesPower(me.entity)

\* BpModel::retain
RetainM(m, pred) ==
    RemoveAllM(m, {id \in DOMAIN m.all_entities : ~Keeps(pred, m.all_entities[id])})

\* mutant of CableConnectionOk: the larger of the two wire distances decides
CableConnectionOk_MaxDistance(m, id, other_id) ==
    /\ id # other_id
    /\ id \in DOMAIN m.all_entities
    /\ other_id \in DOMAIN m.all_entities
    /\ LET this == m.all_entities[id]
           other == m.all_entities[other_id]
           pd1 == Prototypes[this.entity.prototype].pole_data
           pd2 == Prototypes[other.entity.prototype].pole_data
       IN  /\ pd1.is_some
           /\ pd2.is_some
           /\ LET max_dist == Max(pd1.wire_distance, pd2.wire_distance)
              IN  ~(SqDist(this.entity.position, other.entity.position) > max_dist * max_dist)

\* mutant of CableConnectionOk: the two ids may be the same
CableConnectionOk_AllowsSelf(m, id, other_id) ==
    /\ id \in DOMAIN m.all_entities
    /\ other_id \in DOMAIN m.all_entities
    /\ LET this == m.all_entities[id]
           other == m.all_entities[other_id]
           pd1 == Prototypes[this.entity.prototype].pole_data
           pd2 == Prototypes[other.entity.prototype].pole_data
       IN  /\ pd1.is_some
           /\ pd2.is_some
           /\ LET max_dist == Min(pd1.wire_distance, pd2.wire_distance)
              IN  ~(SqDist(this.entity.position, other.entity.position) > max_dist * max_dist)

\* BpModel::add_cable_connection: TRUE iff the call returns Some(())
CableConnectionOk(m, id, other_id) ==
    /\ id # other_id
    /\ id \in DOMAIN m.all_entities
    /\ other_id \in DOMAIN m.all_entities
    /\ LET this == m.all_entities[id]
           other == m.all_entities[other_id]
           pd1 == Prototypes[this.entity.prototype].pole_data
           pd2 == Prototypes[other.entity.prototype].pole_data
       IN  /\ pd1.is_some
           /\ pd2.is_some
           /\ LET max_dist == Min(pd1.wire_distance, pd2.wire_distance)
              IN  ~(SqDist(this.entity.position, other.entity.position) > max_dist * max_dist)
           /\ this.extra.kind = "Pole"
           /\ other.extra.kind = "Pole"

\* BpModel::add_cable_connection: the model after the call
AddCableConnectionM(m, id, other_id) ==
    IF CableConnectionOk(m, id, other_id)
    THEN [m EXCEPT !.all_entities =
            [i \in DOMAIN m.all_entities |->
                IF i = id
                THEN [m.all_entities[i] EXCEPT !.extra.connections = @ \cup {other_id}]
                ELSE IF i = other_id
                THEN [m.all_entities[i] EXCEPT !.extra.connections = @ \cup {id}]
                ELSE m.all_entities[i]]]
    ELSE m

-----------------------------------------------------------------------------
(* BpModel::from_bp_entities.  bp maps entity numbers to                   *)
(* [data: a WorldEntity, neighbours: Option of a set of ids]           ;  *)
(* order is the order in which the HashMap bp.entities is iterated.        *)

NoNeighbours == [is_some |-> FALSE]
SomeNeighbours(S) == [is_some |-> TRUE, ids |-> S]

RECURSIVE AddAllInternal(_, _, _)
AddAllInternal(m, bp, order) ==
    IF order = <<>> THEN m
    ELSE AddAllInternal(AddInternal(m, NewEmpty(Head(order), bp[Head(order)].data)),
                        bp, Tail(order))

RECURSIVE ConnectAll(_, _)
ConnectAll(m, pairs) ==
    IF pairs = {} THEN m
    ELSE LET pr == CHOOSE q \in pairs : TRUE
         IN  ConnectAll(AddCableConnectionM(m, pr[1], pr[2]), pairs \ {pr})

\* mutant of FromBpEntities: next_id is set from the number of entities
FromBpEntities_CountsEntities(bp, order) ==
    LET added == AddAllInternal(NewModel, bp, order)
    IN  [added EXCEPT !.next_id = Cardinality(DOMAIN bp) + 1]

FromBpEntities(bp, order) ==
    LET added == AddAllInternal(NewModel, bp, order)
        pairs == {<<id, n>> \in (DOMAIN bp) \X (1..MaxBpId) :
                     /\ bp[id].neighbours.is_some
                     /\ n \in bp[id].neighbours.ids}
        wired == ConnectAll(added, pairs)
    IN  [wired EXCEPT !.next_id = (IF DOMAIN bp = {} THEN 0 ELSE SetMax(DOMAIN bp)) + 1]

-----------------------------------------------------------------------------
(* The inputs of the BpModel runs *)

\* map position of an entity of prototype p whose top-left tile is (x, y)
CenterAt(p, x, y) ==
    <<4 * x + 2 * Prototypes[p].tile_width, 4 * y + 2 * Prototypes[p].tile_height>>

\* poles in a row (neighbours exactly one wire distance apart, the outer two out of
\* reach), two machines, and a splitter in both orientations
ModelEntities ==
    {WorldEntity("pole", CenterAt("pole", x, y), 0) : x \in PlaceXs, y \in PlaceYs}
    \cup {WorldEntity("machine", CenterAt("machine", x, 0), 0) : x \in 0..1}
    \cup {WorldEntity("splitter", CenterAt("splitter", 0, 0), 0),
          WorldEntity("splitter", CenterAt("splitter", 1, 0), 2)}

Perms(S) == {f \in [1..Cardinality(S) -> S] : \A i, j \in 1..Cardinality(S) : i # j => f[i] # f[j]}

\* the blueprints handed to from_bp_entities: at most MaxBpEntities entities; either
\* no entity lists neighbours or every pole lists all the other entities
BpInputs ==
    UNION {{[id \in S |->
                [data |-> d[id],
                 neighbours |-> IF w /\ IsPoleProto(d[id].prototype) THEN SomeNeighbours(S \ {id}) ELSE NoNeighbours]]
            : d \in [S -> ModelEntities], w \in BOOLEAN}
           : S \in {T \in SUBSET (1..MaxBpId) : Cardinality(T) <= MaxBpEntities}}

-----------------------------------------------------------------------------
(* Specification of the BpModel runs *)

Model == [by_tile |-> by_tile, all_entities |-> all_entities, next_id |-> next_id,
          panicked |-> panicked]

SetModel(m) ==
    /\ by_tile' = m.by_tile
    /\ all_entities' = m.all_entities
    /\ next_id' = m.next_id
    /\ panicked' = m.panicked

IssuedIds == {issued[i].id : i \in 1..Len(issued)}
Freed == IssuedIds \ DOMAIN all_entities

\* no window exists in the runs of the BpModel operations
\* no call has been made yet
NoCall == [op |-> "none"]
\* the run keeps no history of its calls
Untraced == [op |-> "untraced"]
\* the call is written to the history, in the runs that keep one
Note(call) ==
    /\ last_call' = IF last_call = Untraced THEN Untraced ELSE call
    /\ UNCHANGED blueprintVars

\* no blueprint has been read
NoEntities == [read |-> FALSE]
NoExport == [status |-> "none"]
NoBlueprint == entities = NoEntities /\ exported = NoExport

\* what a call returned: Option::None, or Some(value)
None == [is_some |-> FALSE]
Some(value) == [is_some |-> TRUE, value |-> value]

\* PoleWindows::new for WireReach and for PoleCoverage: no window yet
NoPoleWindows == [params \in {"WireReach", "PoleCoverage"} |-> EmptyMap]

NoWindow ==
    /\ top_left = <<0, 0>>
    /\ size = 0
    /\ current_counts = EmptyMap
    /\ requested = <<0, 0>>
    /\ last_move = [kind |-> "none"]
    /\ pole_windows = NoPoleWindows

\* no graph has been built
NoGraph == [built |-> FALSE]

\* solve has not been called
NoSolution == [status |-> "none"]

\* connect_poles has not been called
NoConnector ==
    /\ conn_graph = NoGraph
    /\ res_graph = NoGraph
    /\ sort_edges = {}
    /\ uf = EmptyMap
    /\ pretty_edges = <<>>
    /\ conn_stage = "idle"
    /\ first_result = NoGraph

NoSolver ==
    /\ pole_graph = NoGraph
    /\ cand_graph = NoGraph
    /\ solution = NoSolution
    /\ NoConnector

\* BpModel::new(), nothing else built
InitNewModel ==
    /\ NoWindow
    /\ NoSolver
    /\ by_tile = NewModel.by_tile
    /\ all_entities = NewModel.all_entities
    /\ next_id = NewModel.next_id
    /\ panicked = FALSE
    /\ issued = <<>>

InitNew ==
    /\ InitNewModel
    /\ last_call = Untraced
    /\ NoBlueprint

InitFromBp ==
    \E bp \in BpInputs : \E order \in Perms(DOMAIN bp) :
        LET m == FromBpEntities(bp, order)
        IN  /\ NoWindow
            /\ NoSolver
            /\ by_tile = m.by_tile
            /\ all_entities = m.all_entities
            /\ next_id = m.next_id
            /\ panicked = m.panicked
            /\ issued = [i \in 1..Len(order) |-> [id |-> order[i], after |-> {}]]
            /\ last_call = Untraced
            /\ NoBlueprint

Init == InitNew \/ InitFromBp

AddOverlap(entity) ==
    /\ ~panicked
    /\ UNCHANGED <<windowVars, solverVars>>
    /\ next_id <= MaxId
    /\ SetModel(AddOverlapM(Model, entity))
    /\ issued' = Append(issued, [id |-> next_id, after |-> Freed])
    /\ Note([op |-> "add_overlap", entity |-> entity, result |-> Some(next_id)])

AddNoOverlap(entity) ==
    /\ ~panicked
    /\ UNCHANGED <<windowVars, solverVars>>
    /\ next_id <= MaxId
    /\ SetModel(AddNoOverlapM(Model, entity))
    /\ IF AddNoOverlapM(Model, entity) # Model
       THEN /\ issued' = Append(issued, [id |-> next_id, after |-> Freed])
            /\ Note([op |-> "add_no_overlap", entity |-> entity, result |-> Some(next_id)])
       ELSE /\ issued' = issued
            /\ Note([op |-> "add_no_overlap", entity |-> entity, result |-> None])

Remove(id) ==
    /\ ~panicked
    /\ UNCHANGED <<windowVars, solverVars>>
    /\ id \in DOMAIN all_entities     \* a missing id fails the unwrap: the caller's contract
    /\ SetModel(RemoveM(Model, id))
    /\ UNCHANGED issued
    /\ Note([op |-> "remove", id |-> id])

Retain(pred) ==
    /\ ~panicked
    /\ UNCHANGED <<windowVars, solverVars>>
    /\ SetModel(RetainM(Model, pred))
    /\ UNCHANGED issued
    /\ Note([op |-> "retain", pred |-> pred])

AddCableConnection(id, other_id) ==
    /\ ~panicked
    /\ UNCHANGED <<windowVars, solverVars>>
    /\ SetModel(AddCableConnectionM(Model, id, other_id))
    /\ UNCHANGED issued
    /\ Note([op |-> "add_cable_connection", id |-> id, other_id |-> other_id,
             result |-> IF CableConnectionOk(Model, id, other_id) THEN Some(TRUE) ELSE None])

vars == <<by_tile, all_entities, next_id, pole_windows, pole_graph, cand_graph, solution, conn_graph, res_graph,
          sort_edges, uf, pretty_edges, conn_stage, first_result, top_left, size, current_counts, requested,
          last_move, panicked, issued, last_call, blueprintVars>>

Next ==
    \/ \E entity \in ModelEntities : AddOverlap(entity)
    \/ \E entity \in ModelEntities : AddNoOverlap(entity)
    \/ \E id \in Ids : Remove(id)
    \/ \E pred \in RetainPredicates : Retain(pred)
    \/ \E id, other_id \in Ids : AddCableConnection(id, other_id)

Spec == Init /\ [][Next]_vars

\* The runs of claim C3: add_overlap, add_cable_connection and remove on a new model
NextCable ==
    \/ \E entity \in ModelEntities : AddOverlap(entity)
    \/ \E id \in Ids : Remove(id)
    \/ \E id, other_id \in Ids : AddCableConnection(id, other_id)

SpecCable == InitNew /\ [][NextCable]_vars

-----------------------------------------------------------------------------
(* Claims about the BpModel *)

\* how often id occurs in the bucket of tile t (0 when the tile has no bucket)
CountIn(t, id) ==
    IF t \in DOMAIN by_tile
    THEN Cardinality({k \in 1..Len(by_tile[t]) : by_tile[t][k] = id})
    ELSE 0

BucketIds == UNION {{by_tile[t][k] : k \in 1..Len(by_tile[t])} : t \in DOMAIN by_tile}

TilesInPlay ==
    (DOMAIN by_tile) \cup UNION {EntityTiles(all_entities[id].entity) : id \in DOMAIN all_entities}

\* C2: the tile index is exactly the index of the stored entities: id is in the
\* bucket of tile t iff an entity with that id is stored and its world bounding box
\* overlaps t, then exactly once; and no bucket is empty.
C2_TileIndexExact ==
    /\ BucketIds \subseteq DOMAIN all_entities
    /\ \A t \in TilesInPlay : \A id \in DOMAIN all_entities :
          CountIn(t, id) = IF t \in EntityTiles(all_entities[id].entity) THEN 1 ELSE 0
    /\ \A t \in DOMAIN by_tile : by_tile[t] # <<>>
    /\ \A t \in TilesInPlay :
          Occupied(Model, t) <=> \E id \in DOMAIN all_entities : t \in EntityTiles(all_entities[id].entity)

\* a bucket shared by two entities while an earlier entity has been removed and its
\* tile has lost its bucket
C2_Witness ==
    /\ \E t \in DOMAIN by_tile : Len(by_tile[t]) >= 2
    /\ Freed # {}
    /\ \E k \in 1..Len(issued) : issued[k].after # {}
    /\ <<0, 0>> \notin DOMAIN by_tile

\* C3: cable-neighbour sets are symmetric and closed: every id in a stored pole's
\* set is a stored pole that lists the pole back.
C3_CableSymmetric ==
    \A a \in DOMAIN all_entities :
        all_entities[a].extra.kind = "Pole" =>
            \A b \in all_entities[a].extra.connections :
                /\ b \in DOMAIN all_entities
                /\ all_entities[b].extra.kind = "Pole"
                /\ a \in all_entities[b].extra.connections

-----------------------------------------------------------------------------
(* Moving2DWindow (pole_windows.rs).  A window is a record w of the        *)
(* struct's fields; its source is the tile index bt of a BpModel, which    *)
(* cannot change while the window borrows it.                              *)

\* GetAtPos for &BpModel: the ids in the bucket of a tile, in bucket order
GetAtTile(bt, pos) == IF pos \in DOMAIN bt THEN bt[pos] ELSE <<>>

\* *self.current_counts.entry(id).or_insert(0) += 1
IncCount(counts, id) ==
    IF id \in DOMAIN counts THEN [counts EXCEPT ![id] = @ + 1] ELSE (id :> 1) @@ counts

\* dec_at without the removal of an entry whose count reaches 0
DecCount_KeepsZero(counts, id) ==
    IF id \notin DOMAIN counts THEN counts ELSE [counts EXCEPT ![id] = @ - 1]

\* the body of the loop of dec_at
DecCount(counts, id) ==
    IF id \notin DOMAIN counts
    THEN counts                                      \* println!("not found at ..."); continue
    ELSE IF counts[id] = 1
    THEN [i \in (DOMAIN counts) \ {id} |-> counts[i]]
    ELSE [counts EXCEPT ![id] = @ - 1]

RECURSIVE IncAll(_, _)
IncAll(counts, ids) ==
    IF ids = <<>> THEN counts ELSE IncAll(IncCount(counts, Head(ids)), Tail(ids))

RECURSIVE DecAll(_, _)
DecAll(counts, ids) ==
    IF ids = <<>> THEN counts ELSE DecAll(DecCount(counts, Head(ids)), Tail(ids))

\* Moving2DWindow::inc_at / dec_at
IncAt(bt, w, pos) == [w EXCEPT !.current_counts = IncAll(@, GetAtTile(bt, pos))]
DecAt(bt, w, pos) == [w EXCEPT !.current_counts = DecAll(@, GetAtTile(bt, pos))]

Plus(p, v) == <<p[1] + v[1], p[2] + v[2]>>

\* for k in 0..size { inc_at(top_left + inc0 + k*along); dec_at(top_left + dec0 + k*along) }
RECURSIVE ShiftLoop(_, _, _, _, _, _)
ShiftLoop(bt, w, k, inc0, dec0, along) ==
    IF k >= w.size THEN w
    ELSE LET off == <<k * along[1], k * along[2]>>
             inced == IncAt(bt, w, Plus(Plus(w.top_left, inc0), off))
         IN  ShiftLoop(bt, DecAt(bt, inced, Plus(Plus(w.top_left, dec0), off)),
                       k + 1, inc0, dec0, along)

\* Moving2DWindow::move_inc_x
MoveIncX(bt, w) ==
    LET shifted == ShiftLoop(bt, w, 0, <<w.size, 0>>, <<0, 0>>, <<0, 1>>)
    IN  [shifted EXCEPT !.top_left = <<@[1] + 1, @[2]>>]

\* Moving2DWindow::move_inc_y
MoveIncY(bt, w) ==
    LET shifted == ShiftLoop(bt, w, 0, <<0, w.size>>, <<0, 0>>, <<1, 0>>)
    IN  [shifted EXCEPT !.top_left = <<@[1], @[2] + 1>>]

\* move_dec_x retiring the last column it keeps instead of the one it leaves
MoveDecX_OffByOne(bt, w) ==
    ShiftLoop(bt, [w EXCEPT !.top_left = <<@[1] - 1, @[2]>>], 0,
              <<0, 0>>, <<w.size - 1, 0>>, <<0, 1>>)

\* Moving2DWindow::move_dec_x
MoveDecX(bt, w) ==
    ShiftLoop(bt, [w EXCEPT !.top_left = <<@[1] - 1, @[2]>>], 0,
              <<0, 0>>, <<w.size, 0>>, <<0, 1>>)

\* Moving2DWindow::move_dec_y
MoveDecY(bt, w) ==
    ShiftLoop(bt, [w EXCEPT !.top_left = <<@[1], @[2] - 1>>], 0,
              <<0, 0>>, <<0, w.size>>, <<1, 0>>)

\* one of the four single-tile moves
MoveStep(bt, w, dir) ==
    CASE dir = "inc_x" -> MoveIncX(bt, w)
      [] dir = "dec_x" -> MoveDecX(bt, w)
      [] dir = "inc_y" -> MoveIncY(bt, w)
      [] dir = "dec_y" -> MoveDecY(bt, w)

\* for _ in 0..n { self.move_<dir>() }
RECURSIVE Repeat(_, _, _, _)
Repeat(bt, w, n, dir) ==
    IF n <= 0 THEN w ELSE Repeat(bt, MoveStep(bt, w, dir), n - 1, dir)

\* Moving2DWindow::move_rel
MoveRel(bt, w, diff) ==
    LET afterX == IF diff[1] > 0 THEN Repeat(bt, w, diff[1], "inc_x")
                  ELSE Repeat(bt, w, -diff[1], "dec_x")
    IN  IF diff[2] > 0 THEN Repeat(bt, afterX, diff[2], "inc_y")
        ELSE Repeat(bt, afterX, -diff[2], "dec_y")

\* the number of single-tile moves the two loops of move_rel make
MoveRelShifts(diff) ==
    [columns |-> IF diff[1] > 0 THEN diff[1] ELSE Max(0, -diff[1]),
     rows |-> IF diff[2] > 0 THEN diff[2] ELSE Max(0, -diff[2])]

\* for y in 0..size { inc_at(new_top_left + vec2(x, y)) }
RECURSIVE ScanColumn(_, _, _, _, _)
ScanColumn(bt, w, tl, x, y) ==
    IF y >= w.size THEN w
    ELSE ScanColumn(bt, IncAt(bt, w, Plus(tl, <<x, y>>)), tl, x, y + 1)

\* for x in 0..size { for y in 0..size { inc_at(new_top_left + vec2(x, y)) } }
RECURSIVE ScanLoop(_, _, _, _)
ScanLoop(bt, w, tl, x) ==
    IF x >= w.size THEN w
    ELSE ScanLoop(bt, ScanColumn(bt, w, tl, x, 0), tl, x + 1)

\* Moving2DWindow::jump_to
JumpToW(bt, w, new_top_left) ==
    ScanLoop(bt, [w EXCEPT !.top_left = new_top_left, !.current_counts = EmptyMap],
             new_top_left, 0)

\* the test of move_to with a jump when the two amounts of work are equal
JumpIsCheaper_OrEqual(w, new_top_left) ==
    LET dx == Abs(new_top_left[1] - w.top_left[1])
        dy == Abs(new_top_left[2] - w.top_left[2])
        work_jump == w.size * w.size
        work_move == 2 * (dx * w.size + dy * w.size)
    IN  work_jump <= work_move

\* the test of move_to: TRUE when it re-scans instead of shifting
JumpIsCheaper(w, new_top_left) ==
    LET dx == Abs(new_top_left[1] - w.top_left[1])
        dy == Abs(new_top_left[2] - w.top_left[2])
        work_jump == w.size * w.size
        work_move == 2 * (dx * w.size + dy * w.size)
    IN  work_jump < work_move

\* Moving2DWindow::move_to
MoveToW(bt, w, new_top_left) ==
    IF w.top_left = new_top_left THEN w
    ELSE IF JumpIsCheaper(w, new_top_left)
    THEN JumpToW(bt, w, new_top_left)
    ELSE MoveRel(bt, w, <<new_top_left[1] - w.top_left[1], new_top_left[2] - w.top_left[2]>>)

\* Moving2DWindow::new
NewWindow(bt, tl, side) ==
    JumpToW(bt, [top_left |-> tl, size |-> side, current_counts |-> EmptyMap], tl)

\* Moving2DWindow::cur_items
CurItems(w) == DOMAIN w.current_counts

-----------------------------------------------------------------------------
(* Specification of the window runs: a window is created over a model and  *)
(* then moved about.                                                       *)

\* side lengths of the windows of the runs are 1..MaxWindowSide
MaxWindowSide == 4
\* top-left corners asked for
WindowXs == -2..2
WindowYs == -2..2
WindowCorners == WindowXs \X WindowYs

\* BpModel holding the entities of the sequence es, added in this order
RECURSIVE BuildModel(_, _)
BuildModel(m, es) ==
    IF es = <<>> THEN m ELSE BuildModel(AddOverlapM(m, Head(es)), Tail(es))

\* entities of the source models: overlapping 1x1 entities, a rotated splitter
\* reaching into negative tiles, and a 2x2 pole
SourcePool ==
    << WorldEntity("pole", CenterAt("pole", 0, 0), 0),
       WorldEntity("machine", CenterAt("machine", 0, 0), 0),
       WorldEntity("splitter", CenterAt("splitter", 1, 0), 2),
       WorldEntity("bigpole", CenterAt("bigpole", -1, 0), 0) >>

\* the subsequences of a sequence
RECURSIVE SubSeqs(_)
SubSeqs(q) ==
    IF q = <<>> THEN {<<>>}
    ELSE LET rest == SubSeqs(Tail(q))
         IN  rest \cup {<<Head(q)>> \o r : r \in rest}

WindowSources == {BuildModel(NewModel, es) : es \in SubSeqs(SourcePool)}

Window == [top_left |-> top_left, size |-> size, current_counts |-> current_counts]

SetWindow(w) ==
    /\ top_left' = w.top_left
    /\ size' = w.size
    /\ current_counts' = w.current_counts

InitWindow ==
    \E m \in WindowSources : \E tl \in WindowCorners : \E side \in 1..MaxWindowSide :
        LET w == NewWindow(m.by_tile, tl, side)
        IN  /\ by_tile = m.by_tile
            /\ all_entities = m.all_entities
            /\ next_id = m.next_id
            /\ panicked = FALSE
            /\ issued = <<>>
            /\ last_call = Untraced
            /\ NoBlueprint
            /\ top_left = w.top_left
            /\ size = w.size
            /\ current_counts = w.current_counts
            /\ requested = tl
            /\ last_move = [kind |-> "new"]
            /\ pole_windows = NoPoleWindows
            /\ NoSolver

MoveTo(new_top_left) ==
    /\ SetWindow(MoveToW(by_tile, Window, new_top_left))
    /\ requested' = new_top_left
    /\ last_move' = IF top_left = new_top_left THEN [kind |-> "stay"]
                    ELSE IF JumpIsCheaper(Window, new_top_left) THEN [kind |-> "jump"]
                    ELSE LET shifts == MoveRelShifts(<<new_top_left[1] - top_left[1],
                                                       new_top_left[2] - top_left[2]>>)
                         IN  [kind |-> "shift", columns |-> shifts.columns,
                              rows |-> shifts.rows]
    /\ UNCHANGED <<modelVars, solverVars, panicked, issued, last_call, blueprintVars,
                   pole_windows>>

NextWindow == \E tl \in WindowCorners : MoveTo(tl)

SpecWindow == InitWindow /\ [][NextWindow]_vars

-----------------------------------------------------------------------------
(* Claims about the window *)

WindowTiles(tl, side) == {<<x, y>> : x \in tl[1]..(tl[1] + side - 1), y \in tl[2]..(tl[2] + side - 1)}

IdsAt(bt, pos) == {GetAtTile(bt, pos)[k] : k \in 1..Len(GetAtTile(bt, pos))}

\* the number of tiles of the window in which id appears in the source
TilesHolding(bt, tl, side, id) == Cardinality({t \in WindowTiles(tl, side) : id \in IdsAt(bt, t)})

\* C8: after any sequence of move_to calls the window stands at the position asked
\* for and cur_items() is the set of ids found in the S x S tiles starting there,
\* which is what a window freshly created at that top-left holds.
C8_MovedEqualsFresh ==
    /\ top_left = requested
    /\ CurItems(Window) = UNION {IdsAt(by_tile, t) : t \in WindowTiles(requested, size)}
    /\ CurItems(Window) = CurItems(NewWindow(by_tile, requested, size))

\* a window that reached its place by column and row shifts, holds some ids and
\* misses others
C8_Witness ==
    /\ last_move.kind = "shift"
    /\ last_move.columns >= 1
    /\ last_move.rows >= 1
    /\ top_left[1] < 0
    /\ CurItems(Window) # {}
    /\ CurItems(Window) # DOMAIN all_entities

\* what C30 asks of one call of move_to, with jump_when(work_jump, work_move) as the
\* test for a jump
MoveToAsStated(tl, jump_when(_, _)) ==
    LET dx == Abs(tl[1] - top_left[1])
        dy == Abs(tl[2] - top_left[2])
    IN  IF tl = top_left
        THEN /\ last_move'.kind = "stay"
             /\ UNCHANGED <<top_left, size, current_counts>>
        ELSE IF jump_when(size * size, 2 * size * (dx + dy))
        THEN last_move'.kind = "jump"
        ELSE last_move' = [kind |-> "shift", columns |-> dx, rows |-> dy]

\* C30, as stated: move_to to a different top-left jumps iff S*S <= 2*S*(|dx|+|dy|)
\* and otherwise makes exactly |dx| column shifts and |dy| row shifts; move_to to
\* the current top-left does nothing.
C30_JumpIffNotDearer ==
    [][\A tl \in WindowCorners :
          (requested' = tl /\ MoveTo(tl)) => MoveToAsStated(tl, LAMBDA work_jump, work_move : work_jump <= work_move)]_vars

\* C30, amended: move_to to a different top-left jumps iff S*S < 2*S*(|dx|+|dy|) and
\* otherwise, also when the two are equal, makes exactly |dx| column shifts and |dy|
\* row shifts; move_to to the current top-left does nothing.
C30_JumpIffCheaper ==
    [][\A tl \in WindowCorners :
          (requested' = tl /\ MoveTo(tl)) => MoveToAsStated(tl, LAMBDA work_jump, work_move : work_jump < work_move)]_vars

\* a window of side 4 that was moved by one column and one row, where a jump and
\* the shifts are the same amount of work
C30_Witness ==
    /\ last_move.kind = "shift"
    /\ size = 2 * (last_move.columns + last_move.rows)
    /\ last_move.columns = 1
    /\ last_move.rows = 1
    /\ top_left = requested

\* C9: current_counts[id] is the number of window tiles in which id appears in the
\* source, and no entry has count 0.
C9_CountsExact ==
    /\ \A id \in DOMAIN current_counts : current_counts[id] > 0
    /\ \A id \in (DOMAIN all_entities) \cup (DOMAIN current_counts) :
          (IF id \in DOMAIN current_counts THEN current_counts[id] ELSE 0)
              = TilesHolding(by_tile, top_left, size, id)

\* after shifts, an entity is counted on several tiles, another has left the window
C9_Witness ==
    /\ last_move.kind = "shift"
    /\ \E id \in DOMAIN current_counts : current_counts[id] >= 2
    /\ \E id \in DOMAIN all_entities : id \notin DOMAIN current_counts

-----------------------------------------------------------------------------
(* PoleWindows (pole_windows.rs): one cached window per pole prototype.    *)
(* windows maps prototype names to window records.                         *)

\* PoleWindowParams::get_radius for WireReach and PoleCoverage
GetRadius(params, pole_data) ==
    IF params = "WireReach" THEN pole_data.wire_distance ELSE pole_data.supply_radius

\* MapPosition::tile_pos
TilePos(pos) == <<FloorTile(pos[1]), FloorTile(pos[2])>>

\* PoleWindows::get_window_top_left
GetWindowTopLeft(params, pole_data, pos) ==
    LET radius == GetRadius(params, pole_data)
    IN  TilePos(<<pos[1] - radius, pos[2] - radius>>)

\* PoleWindows::get_window_size
GetWindowSize(params, proto, pole_data) ==
    LET rep_center == <<2 * (Prototypes[proto].tile_width % 2),
                        2 * (Prototypes[proto].tile_height % 2)>>
        radius == GetRadius(params, pole_data)
        tl == GetWindowTopLeft(params, pole_data, rep_center)
        bottom_right == TilePos(<<rep_center[1] + radius, rep_center[2] + radius>>)
    IN  Max(bottom_right[1] - tl[1], bottom_right[2] - tl[2]) + 1

\* PoleWindows::get_window_for: the cache after the call; the window handed back
\* is the entry of the pole's prototype
GetWindowFor(params, bt, windows, pole) ==
    LET proto == pole.prototype
        pole_data == Prototypes[proto].pole_data
        tl == GetWindowTopLeft(params, pole_data, pole.position)
        window == IF proto \in DOMAIN windows THEN windows[proto]
                  ELSE NewWindow(bt, tl, GetWindowSize(params, proto, pole_data))
    IN  (proto :> MoveToW(bt, window, tl)) @@ windows

-----------------------------------------------------------------------------
(* Specification of the PoleWindows runs: a WireReachWindows and a         *)
(* PoleCoverageWindows over one model are asked for the windows of poles,  *)
(* as tests::test_pole_windows asks.                                       *)

\* the models under the windows: the empty model of the test, and one with a
\* machine and a pole
PoleWindowModels ==
    {NewModel,
     BuildModel(NewModel, << WorldEntity("machine", CenterAt("machine", 3, 2), 0),
                             WorldEntity("testpole", CenterAt("testpole", 1, 2), 0) >>)}

\* the poles asked about: 1x1 poles with wire_distance 7.5 and supply_radius 2.5
\* (small_pole_prototype) and with wire_distance 4.5 and supply_radius 2.5, the
\* first at the position (1.5, 2.5) of the test
WindowPoles ==
    {WorldEntity(proto, CenterAt(proto, tile[1], tile[2]), 0) :
        proto \in {"testpole", "mediumpole"}, tile \in {<<1, 2>>, <<2, 2>>, <<-1, 0>>}}

InitPoleWindows ==
    \E m \in PoleWindowModels :
        /\ by_tile = m.by_tile
        /\ all_entities = m.all_entities
        /\ next_id = m.next_id
        /\ panicked = FALSE
        /\ issued = <<>>
        /\ last_call = NoCall
        /\ NoBlueprint
        /\ NoWindow
        /\ NoSolver

\* PoleWindows<params>::get_window_for(pole)
GetWindow(params, pole) ==
    /\ pole_windows' = [pole_windows EXCEPT
                            ![params] = GetWindowFor(params, by_tile, @, pole)]
    /\ Note([op |-> "get_window_for", params |-> params, pole |-> pole,
             before |-> pole_windows[params]])
    /\ UNCHANGED <<modelVars, top_left, size, current_counts, requested, last_move,
                   solverVars, panicked, issued>>

NextPoleWindows ==
    \E params \in {"WireReach", "PoleCoverage"}, pole \in WindowPoles : GetWindow(params, pole)

SpecPoleWindows == InitPoleWindows /\ [][NextPoleWindows]_vars

\* C23: after get_window_for on a 1x1 pole the window of the pole's prototype has
\* its top-left on the tile of position - (radius, radius) and the smallest whole
\* side that covers 2 * radius (15 for the wire-reach window of wire_distance 7.5,
\* 5 for the supply-area window of supply_radius 2.5); the window of a prototype
\* is created at the first call for it and moved, with its side kept, by every
\* later one, and the windows of other prototypes are left alone.
C23_WindowForPole ==
    (last_call # NoCall /\ last_call.op = "get_window_for") =>
        LET params == last_call.params
            pole == last_call.pole
            proto == pole.prototype
            radius == GetRadius(params, Prototypes[proto].pole_data)
            before == last_call.before
            after == pole_windows[params]
        IN  /\ DOMAIN after = DOMAIN before \cup {proto}
            /\ \A k \in DOMAIN before : k # proto => after[k] = before[k]
            /\ proto \in DOMAIN before => after[proto].size = before[proto].size
            /\ after[proto].top_left = TilePos(<<pole.position[1] - radius,
                                                pole.position[2] - radius>>)
            /\ after[proto].size = CeilTile(2 * radius)
            /\ (proto = "testpole" /\ params = "WireReach") => after[proto].size = 15
            /\ (proto = "testpole" /\ params = "PoleCoverage") => after[proto].size = 5

-----------------------------------------------------------------------------
(* Pole graphs (pole_graph.rs).  A graph is                                *)
(*   [built, nodes: sequence of WorldEntity, edges: sequence of            *)
(*    [a, b, weight], id_map: EntityId -> node index].                     *)
(* Node indices count from 1 (from 0 in petgraph).  An edge weight is the  *)
(* squared distance in quarter tiles where the source stores the distance. *)

\* the elements of a set of integers in ascending order
RECURSIVE Ascending(_)
Ascending(S) ==
    IF S = {} THEN <<>>
    ELSE LET least == CHOOSE x \in S : \A y \in S : x <= y
         IN  <<least>> \o Ascending(S \ {least})

\* a sequence without the later repetitions of its elements (Itertools::unique)
RECURSIVE Unique(_, _)
Unique(q, seen) ==
    IF q = <<>> THEN <<>>
    ELSE IF Head(q) \in seen THEN Unique(Tail(q), seen)
    ELSE <<Head(q)>> \o Unique(Tail(q), seen \cup {Head(q)})

\* sorted_by_key(pos.to_tuple()) followed by flat_map over the buckets
RECURSIVE BucketsInTileOrder(_, _)
BucketsInTileOrder(bt, tiles) ==
    IF tiles = {} THEN <<>>
    ELSE LET first == CHOOSE t \in tiles : \A u \in tiles :
                          t[1] < u[1] \/ (t[1] = u[1] /\ t[2] <= u[2])
         IN  bt[first] \o BucketsInTileOrder(bt, tiles \ {first})

\* BpModel::all_entities_grid_order, as the sequence of ids
AllEntitiesGridOrder(m) == Unique(BucketsInTileOrder(m.by_tile, DOMAIN m.by_tile), {})

\* BpModel::is_connectable_pole; EPS = 1e-6 square tiles is 16e-6 square quarters
IsConnectablePole(pole_pos, pole_data, target_entity) ==
    LET pd == Prototypes[target_entity.prototype].pole_data
    IN  /\ pd.is_some
        /\ LET max_dist == Min(pole_data.wire_distance, pd.wire_distance)
           IN  SqDist(pole_pos, target_entity.position) * 1000000
                   <= max_dist * max_dist * 1000000 + 16

\* BpModel::get_disconnected_pole_graph; order is the order in which
\* all_entities.values() yields the ids
RECURSIVE DisconnectedNodes(_, _)
DisconnectedNodes(m, order) ==
    IF order = <<>> THEN <<>>
    ELSE IF ~Prototypes[m.all_entities[Head(order)].entity.prototype].pole_data.is_some
    THEN DisconnectedNodes(m, Tail(order))
    ELSE <<Head(order)>> \o DisconnectedNodes(m, Tail(order))

GetDisconnectedPoleGraph(m, order) ==
    LET ids == DisconnectedNodes(m, order)
    IN  [built |-> TRUE,
         nodes |-> [i \in 1..Len(ids) |-> m.all_entities[ids[i]].entity],
         edges |-> <<>>,
         id_map |-> [id \in {ids[i] : i \in 1..Len(ids)} |->
                        CHOOSE i \in 1..Len(ids) : ids[i] = id]]

\* petgraph Graph::update_edge on an undirected graph
UpdateEdge(g, a, b, weight) ==
    LET between(e) == (e.a = a /\ e.b = b) \/ (e.a = b /\ e.b = a)
    IN  IF \E k \in 1..Len(g.edges) : between(g.edges[k])
        THEN [g EXCEPT !.edges = [k \in 1..Len(g.edges) |->
                  IF between(g.edges[k]) THEN [g.edges[k] EXCEPT !.weight = weight]
                  ELSE g.edges[k]]]
        ELSE [g EXCEPT !.edges = Append(@, [a |-> a, b |-> b, weight |-> weight])]

\* the inner loop of maximally_connect_poles for the pole id over the ids others
RECURSIVE ConnectFrom(_, _, _, _)
ConnectFrom(m, g, id, others) ==
    IF others = <<>> THEN g
    ELSE LET other_id == Head(others)
             entity == m.all_entities[id].entity
             other_entity == m.all_entities[other_id].entity
             pole_data == Prototypes[entity.prototype].pole_data
         IN  IF other_id <= id \/ ~IsConnectablePole(entity.position, pole_data, other_entity)
             THEN ConnectFrom(m, g, id, Tail(others))
             ELSE ConnectFrom(m,
                              UpdateEdge(g, g.id_map[id], g.id_map[other_id],
                                         SqDist(entity.position, other_entity.position)),
                              id, Tail(others))

\* window.cur_items(): the keys of current_counts in the order the HashMap yields
\* them, which is the order they have in keys
ItemsIn(items, keys) ==
    SelectSeq(keys, LAMBDA id : id \in items)
        \o Ascending(items \ {keys[i] : i \in 1..Len(keys)})

\* the outer loop of maximally_connect_poles; a graph without nodes has no pole
\* to connect
RECURSIVE ConnectLoop(_, _, _, _, _)
ConnectLoop(m, g, windows, order, keys) ==
    IF order = <<>> \/ g.nodes = <<>> THEN g
    ELSE LET id == Head(order)
             entity == m.all_entities[id].entity
         IN  IF ~Prototypes[entity.prototype].pole_data.is_some
             THEN ConnectLoop(m, g, windows, Tail(order), keys)
             ELSE LET ws == GetWindowFor("WireReach", m.by_tile, windows, entity)
                      items == ItemsIn(CurItems(ws[entity.prototype]), keys)
                  IN  ConnectLoop(m, ConnectFrom(m, g, id, items), ws, Tail(order), keys)

\* BpModel::maximally_connect_poles; keys is the order in which the windows yield
\* their items
MaximallyConnectPoles(m, g, keys) ==
    ConnectLoop(m, g, EmptyMap, AllEntitiesGridOrder(m), keys)

\* BpModel::get_maximally_connected_pole_graph; order is the order in which the
\* hash maps yield the ids
GetMaximallyConnectedPoleGraph(m, order) ==
    MaximallyConnectPoles(m, GetDisconnectedPoleGraph(m, order), order)

-----------------------------------------------------------------------------
(* Specification of the graph runs: poles and a machine are placed with    *)
(* add_overlap, then the maximally-connected graph of the model is built.  *)

\* entities placed in the graph runs: 1x1 poles on neighbouring tiles (exactly one
\* wire distance apart), 2x2 poles exactly one wire distance apart, poles of a
\* prototype with a wire distance of 2.25 tiles centred on (0, 0.5) and
\* (2.25, 0.5), and a machine
GraphEntities ==
    { WorldEntity("pole", CenterAt("pole", 0, 0), 0),
      WorldEntity("pole", CenterAt("pole", 1, 0), 0),
      WorldEntity("bigpole", CenterAt("bigpole", 0, 1), 0),
      WorldEntity("bigpole", CenterAt("bigpole", 3, 1), 0),
      WorldEntity("finepole", <<0, 2>>, 0),
      WorldEntity("finepole", <<9, 2>>, 0),
      WorldEntity("machine", CenterAt("machine", 1, 0), 0) }

\* the orders in which all_entities.values() may yield the stored ids
ValueOrders == Perms(DOMAIN all_entities)

PlaceForGraph(entity) ==
    /\ pole_graph = NoGraph
    /\ AddOverlap(entity)

BuildMaximalGraph(order) ==
    /\ ~panicked
    /\ pole_graph = NoGraph
    /\ pole_graph' = GetMaximallyConnectedPoleGraph(Model, order)
    /\ UNCHANGED <<modelVars, windowVars, cand_graph, solution, connectorVars, panicked, issued, last_call, blueprintVars>>

NextGraph ==
    \/ \E entity \in GraphEntities : PlaceForGraph(entity)
    \/ \E order \in ValueOrders : BuildMaximalGraph(order)

SpecGraph == InitNew /\ [][NextGraph]_vars

-----------------------------------------------------------------------------
(* Claims about the maximally-connected graph *)

StoredPoles == {id \in DOMAIN all_entities : all_entities[id].extra.kind = "Pole"}

\* squared distance <= min(wire_distance)^2 + 1e-6, in quarter tiles
WithinMutualReach(a, b) ==
    LET ea == all_entities[a].entity
        eb == all_entities[b].entity
        reach == Min(Prototypes[ea.prototype].pole_data.wire_distance,
                     Prototypes[eb.prototype].pole_data.wire_distance)
    IN  SqDist(ea.position, eb.position) * 1000000 <= reach * reach * 1000000 + 16

EdgesBetween(g, i, j) ==
    {k \in 1..Len(g.edges) : {g.edges[k].a, g.edges[k].b} = {i, j}}

\* C7: the maximally-connected graph has one node per stored pole and an edge between
\* two distinct poles iff they are within mutual wire reach, at most one per pair.
C7_EdgeIffMutualReach ==
    pole_graph.built =>
        /\ DOMAIN pole_graph.id_map = StoredPoles
        /\ Len(pole_graph.nodes) = Cardinality(StoredPoles)
        /\ \A id \in StoredPoles :
              pole_graph.nodes[pole_graph.id_map[id]] = all_entities[id].entity
        /\ \A a, b \in StoredPoles :
              a # b =>
                  /\ pole_graph.id_map[a] # pole_graph.id_map[b]
                  /\ WithinMutualReach(a, b) <=>
                        EdgesBetween(pole_graph, pole_graph.id_map[a], pole_graph.id_map[b]) # {}
                  /\ Cardinality(EdgesBetween(pole_graph, pole_graph.id_map[a],
                                              pole_graph.id_map[b])) <= 1
        /\ \A k \in 1..Len(pole_graph.edges) : pole_graph.edges[k].a # pole_graph.edges[k].b

-----------------------------------------------------------------------------
(* The calls on a BpModel, one at a time, with a history of the last call: *)
(* the runs start from BpModel::new() and every call writes what it was    *)
(* given and what it returned to last_call.                                *)

InitCalls ==
    /\ InitNewModel
    /\ last_call = NoCall
    /\ NoBlueprint

\* the entities of these runs: three poles in a row, one wire distance apart, a pole
\* of longer reach two tiles from the first, two machines and a splitter
CallEntities ==
    {WorldEntity("pole", CenterAt("pole", x, 0), 0) : x \in 0..2}
    \cup {WorldEntity("smallpole", CenterAt("smallpole", 2, 0), 0),
          WorldEntity("machine", CenterAt("machine", 1, 0), 0),
          WorldEntity("widemachine", CenterAt("widemachine", 0, 0), 0),
          WorldEntity("splitter", CenterAt("splitter", 1, 0), 2)}

\* mutant of PoweredEntities: the ids are not made unique
PoweredEntities_NoUnique(m, pole_pos, pole_data) ==
    LET this_area_dist == pole_data.supply_radius
        tiles == IterTiles(RoundOutToTiles(AroundPoint(pole_pos, this_area_dist)))
        scanned == BucketsInTileOrder(m.by_tile, tiles \cap DOMAIN m.by_tile)
    IN  SelectSeq(scanned, LAMBDA id : UsesPower(m.all_entities[id].entity))

\* BpModel::powered_entities, as the sequence of ids the iterator yields
PoweredEntities(m, pole_pos, pole_data) ==
    LET this_area_dist == pole_data.supply_radius
        tiles == IterTiles(RoundOutToTiles(AroundPoint(pole_pos, this_area_dist)))
        scanned == BucketsInTileOrder(m.by_tile, tiles \cap DOMAIN m.by_tile)
    IN  Unique(SelectSeq(scanned, LAMBDA id : UsesPower(m.all_entities[id].entity)), {})

\* the points and pole kinds powered_entities is asked about
QueryPoints == {<<6, 2>>, <<10, 6>>, <<10, 8>>}
QueryPoles == {"pole", "bigpole"}

\* BpModel::powered_entities(pole_pos, pole_data)
QueryPoweredEntities(pole_pos, pole) ==
    /\ ~panicked
    /\ UNCHANGED <<modelVars, windowVars, solverVars, panicked, issued>>
    /\ Note([op |-> "powered_entities", pole_pos |-> pole_pos, pole |-> pole,
             result |-> PoweredEntities(Model, pole_pos, Prototypes[pole].pole_data)])

\* mutant of ContractMax: the box is not contracted
ContractMax_NoContract(b, amt) == b

\* ContractMax::contract_max for a tile box
ContractMax(b, amt) == Box(b.minx, b.miny, b.maxx - amt, b.maxy - amt)

\* IterTiles for TileBoundingBox as the sequence the iterator yields: x outer, y inner
TileSeq(tb) ==
    LET w == Max(tb.maxx - tb.minx, 0)
        h == Max(tb.maxy - tb.miny, 0)
    IN  [k \in 1..(w * h) |-> <<tb.minx + ((k - 1) \div h), tb.miny + ((k - 1) % h)>>]

\* the candidate of a prototype whose top-left tile is top_left_tile:
\* pos = top_left.corner_map_pos() + vec2(width / 2, width / 2)
CandidateAt(pole_prototype, top_left_tile) ==
    LET width == Prototypes[pole_prototype].tile_width
    IN  WorldEntity(pole_prototype,
                    <<4 * top_left_tile[1] + 2 * width, 4 * top_left_tile[2] + 2 * width>>, 0)

\* mutant of PlaceCandidates: can_place is asked of the model being filled
RECURSIVE PlaceCandidates_ChecksClone(_, _, _, _)
PlaceCandidates_ChecksClone(self, pole_model, pole_prototype, tiles) ==
    IF tiles = <<>> \/ pole_model.panicked THEN pole_model
    ELSE LET entity == CandidateAt(pole_prototype, Head(tiles))
         IN  PlaceCandidates_ChecksClone(self,
                             IF CanPlace(pole_model, entity)
                             THEN AddOverlapM(pole_model, entity)
                             ELSE pole_model,
                             pole_prototype, Tail(tiles))

\* the loop over possible_area.iter_tiles() of with_all_candidate_poles
RECURSIVE PlaceCandidates(_, _, _, _)
PlaceCandidates(self, pole_model, pole_prototype, tiles) ==
    IF tiles = <<>> \/ pole_model.panicked THEN pole_model
    ELSE LET entity == CandidateAt(pole_prototype, Head(tiles))
         IN  PlaceCandidates(self,
                             IF CanPlace(self, entity)
                             THEN AddOverlapM(pole_model, entity)
                             ELSE pole_model,
                             pole_prototype, Tail(tiles))

\* the loop over pole_prototypes of with_all_candidate_poles; a prototype that is
\* not square fails the assert_eq
RECURSIVE CandidatesLoop(_, _, _, _)
CandidatesLoop(self, pole_model, area, pole_prototypes) ==
    IF pole_prototypes = <<>> \/ pole_model.panicked THEN pole_model
    ELSE LET pole_prototype == Head(pole_prototypes)
             width == Prototypes[pole_prototype].tile_width
             possible_area == ContractMax(area, width - 1)
         IN  IF Prototypes[pole_prototype].tile_width # Prototypes[pole_prototype].tile_height
             THEN [pole_model EXCEPT !.panicked = TRUE]
             ELSE CandidatesLoop(self,
                                 PlaceCandidates(self, pole_model, pole_prototype,
                                                 TileSeq(possible_area)),
                                 area, Tail(pole_prototypes))

\* BpModel::with_all_candidate_poles: the model returned
WithAllCandidatePoles(self, area, pole_prototypes) ==
    CandidatesLoop(self, self, area, pole_prototypes)

\* the areas and the prototype lists with_all_candidate_poles is called with
QueryAreas == {Box(0, 0, 4, 2), Box(1, 0, 3, 1)}
QueryPrototypes == {<<"pole">>, <<"bigpole">>, <<"pole", "bigpole">>, <<"bigpole", "pole">>}

\* BpModel::with_all_candidate_poles(area, pole_prototypes)
QueryWithAllCandidatePoles(area, pole_prototypes) ==
    /\ ~panicked
    /\ UNCHANGED <<modelVars, windowVars, solverVars, issued>>
    /\ LET res == WithAllCandidatePoles(Model, area, pole_prototypes)
       IN  /\ panicked' = res.panicked
           /\ Note([op |-> "with_all_candidate_poles", self |-> Model, area |-> area,
                    pole_prototypes |-> pole_prototypes, result |-> res])

\* BpModel::can_place(&entity)
QueryCanPlace(entity) ==
    /\ ~panicked
    /\ UNCHANGED <<modelVars, windowVars, solverVars, panicked, issued>>
    /\ Note([op |-> "can_place", entity |-> entity, result |-> CanPlace(Model, entity)])

NextCalls ==
    \/ \E entity \in CallEntities : AddNoOverlap(entity)
    \/ \E id \in Ids : Remove(id)
    \/ \E id, other_id \in Ids : AddCableConnection(id, other_id)
    \/ \E entity \in CallEntities : QueryCanPlace(entity)

SpecCalls == InitCalls /\ [][NextCalls]_vars

\* two neighbouring poles joined by a cable:
\* add_overlap, add_overlap, add_cable_connection(1, 2) on a new model
WiredPair ==
    AddCableConnectionM(
        AddOverlapM(AddOverlapM(NewModel, WorldEntity("pole", CenterAt("pole", 0, 0), 0)),
                    WorldEntity("pole", CenterAt("pole", 1, 0), 0)),
        1, 2)

\* the runs of the queries start from a new model or from the wired pair; entities
\* are placed with add_overlap, and the model is asked for its powered entities and
\* for its candidate poles
InitQueries ==
    \E m \in {NewModel, WiredPair} :
        /\ NoWindow
        /\ NoSolver
        /\ by_tile = m.by_tile
        /\ all_entities = m.all_entities
        /\ next_id = m.next_id
        /\ panicked = m.panicked
        /\ issued = [k \in 1..(m.next_id - 1) |-> [id |-> k, after |-> {}]]
        /\ last_call = NoCall
        /\ NoBlueprint

NextQueries ==
    \/ \E entity \in CallEntities : AddOverlap(entity)
    \/ \E pole_pos \in QueryPoints, pole \in QueryPoles : QueryPoweredEntities(pole_pos, pole)
    \/ \E area \in QueryAreas, pole_prototypes \in QueryPrototypes :
          QueryWithAllCandidatePoles(area, pole_prototypes)

SpecQueries == InitQueries /\ [][NextQueries]_vars

\* the tiles overlapped by the world bounding box of some stored entity
StoredTiles == UNION {EntityTiles(all_entities[id].entity) : id \in DOMAIN all_entities}

\* no tile of the entity's world bounding box is overlapped by a stored entity
FreeFor(entity) == EntityTiles(entity) \cap StoredTiles = {}

\* C11: a call add_no_overlap(entity) inserts the entity under the id next_id and
\* returns it iff no tile of its world bounding box is overlapped by a stored entity;
\* otherwise it returns None, does not abort and leaves stored entities, buckets and
\* next_id as they were; can_place(entity) is true exactly in the inserting case and
\* changes nothing.
C11_AddNoOverlapContract ==
    [][ /\ last_call'.op = "add_no_overlap" =>
             LET e == last_call'.entity
             IN  /\ ~panicked'
                 /\ CanPlace(Model, e) <=> FreeFor(e)
                 /\ IF FreeFor(e)
                    THEN /\ last_call'.result = Some(next_id)
                         /\ next_id' = next_id + 1
                         /\ DOMAIN all_entities' = (DOMAIN all_entities) \cup {next_id}
                         /\ next_id \notin DOMAIN all_entities
                         /\ all_entities'[next_id] = NewEmpty(next_id, e)
                         /\ \A id \in DOMAIN all_entities : all_entities'[id] = all_entities[id]
                         /\ DOMAIN by_tile' = (DOMAIN by_tile) \cup EntityTiles(e)
                         /\ \A t \in DOMAIN by_tile' :
                                by_tile'[t] = IF t \in EntityTiles(e) THEN <<next_id>> ELSE by_tile[t]
                    ELSE /\ last_call'.result = None
                         /\ UNCHANGED <<by_tile, all_entities, next_id>>
        /\ last_call'.op = "can_place" =>
             /\ last_call'.result = FreeFor(last_call'.entity)
             /\ UNCHANGED <<by_tile, all_entities, next_id, panicked>> ]_vars

\* add_no_overlap has just refused a two-tile entity of which one tile is free and
\* the other is held by a stored entity
C11_Witness ==
    /\ last_call.op = "add_no_overlap"
    /\ last_call.result = None
    /\ EntityTiles(last_call.entity) \ StoredTiles # {}
    /\ EntityTiles(last_call.entity) \cap StoredTiles # {}

\* the stored entity is an electric pole
IsStoredPole(ents, id) ==
    /\ id \in DOMAIN ents
    /\ IsPoleProto(ents[id].entity.prototype)

\* the squared distance of two stored poles is at most the square of the smaller of
\* their wire distances
WithinWireDistance(ents, a, b) ==
    LET w == Min(Prototypes[ents[a].entity.prototype].pole_data.wire_distance,
                 Prototypes[ents[b].entity.prototype].pole_data.wire_distance)
    IN  SqDist(ents[a].entity.position, ents[b].entity.position) <= w * w

\* every cable edge between two stored entities joins two poles within wire distance
CableEdgesWithinReach(ents) ==
    \A a \in DOMAIN ents :
        ents[a].extra.kind = "Pole" =>
            \A b \in ents[a].extra.connections \cap DOMAIN ents :
                /\ IsStoredPole(ents, a)
                /\ IsStoredPole(ents, b)
                /\ WithinWireDistance(ents, a, b)

CandidateIds(res) == (DOMAIN res.all_entities) \ DOMAIN all_entities

\* the top-left tiles at which the footprint of a pole of width w lies inside area
SpotsInside(area, w) ==
    {t \in IterTiles(area) : t[1] + w <= area.maxx /\ t[2] + w <= area.maxy}

\* the pole of prototype p with top-left tile t, centred at t + (w/2, w/2)
PoleOver(p, t) == WorldEntity(p, CenterAt(p, t[1], t[2]), 0)

\* the candidates of res that are the pole of prototype p with top-left tile t
PlacedAt(res, p, t) ==
    {id \in CandidateIds(res) : res.all_entities[id].entity = PoleOver(p, t)}

\* every candidate of res is a pole of a listed prototype over a tile of the
\* contracted area, and no position holds two candidates of one prototype
CandidatesAtSpots(res, area, protos) ==
    /\ \A id \in CandidateIds(res) :
          \E k \in 1..Len(protos) :
              \E t \in SpotsInside(area, Prototypes[protos[k]].tile_width) :
                  res.all_entities[id].entity = PoleOver(protos[k], t)
    /\ \A k \in 1..Len(protos) :
          \A t \in SpotsInside(area, Prototypes[protos[k]].tile_width) :
              Cardinality(PlacedAt(res, protos[k], t)) <= 1

\* a tile of the entity is held by a stored entity that is not a pole
HeldByBlocker(entity) ==
    \E id \in DOMAIN all_entities :
        /\ ~IsPoleProto(all_entities[id].entity.prototype)
        /\ EntityTiles(all_entities[id].entity) \cap EntityTiles(entity) # {}

\* a tile of the entity is held by a candidate of a prototype listed before protos[k]
HeldByOtherCandidate(res, protos, k, entity) ==
    \E id \in CandidateIds(res) :
        /\ \E j \in 1..(k - 1) : res.all_entities[id].entity.prototype = protos[j]
        /\ res.all_entities[id].entity.prototype # protos[k]
        /\ EntityTiles(res.all_entities[id].entity) \cap EntityTiles(entity) # {}

\* C18: with_all_candidate_poles considers, for each prototype of width w, every
\* tile t of the area contracted on the max side by w - 1, with centre
\* t + (w/2, w/2); the candidate is skipped iff a tile it would occupy is held by a
\* non-pole blocker or by a candidate of a different prototype, and every other
\* position receives a candidate.
C18_SkippedIffBlockerOrOtherKind ==
    last_call.op = "with_all_candidate_poles" =>
        LET res == last_call.result
            area == last_call.area
            protos == last_call.pole_prototypes
        IN  /\ CandidatesAtSpots(res, area, protos)
            /\ \A k \in 1..Len(protos) :
                  \A t \in SpotsInside(area, Prototypes[protos[k]].tile_width) :
                      PlacedAt(res, protos[k], t) = {} <=>
                          \/ HeldByBlocker(PoleOver(protos[k], t))
                          \/ HeldByOtherCandidate(res, protos, k, PoleOver(protos[k], t))

\* C18 (amended): the same positions are considered, and the candidate is skipped
\* iff a tile it would occupy is held by an entity of the model asked, a pole or
\* not; candidates never block one another.
C18_SkippedIffHeldByInput ==
    last_call.op = "with_all_candidate_poles" =>
        LET res == last_call.result
            area == last_call.area
            protos == last_call.pole_prototypes
        IN  /\ CandidatesAtSpots(res, area, protos)
            /\ \A k \in 1..Len(protos) :
                  \A t \in SpotsInside(area, Prototypes[protos[k]].tile_width) :
                      PlacedAt(res, protos[k], t) = {} <=> ~FreeFor(PoleOver(protos[k], t))

\* with_all_candidate_poles has just been asked for two prototypes on a model that
\* holds a pole and a blocker; it skipped a position held by the pole alone, and it
\* placed a candidate of the second prototype over one of the first
C18_Witness ==
    /\ last_call.op = "with_all_candidate_poles"
    /\ LET res == last_call.result
           area == last_call.area
           protos == last_call.pole_prototypes
       IN  /\ Len(protos) = 2
           /\ \E t \in SpotsInside(area, Prototypes[protos[1]].tile_width) :
                 /\ PlacedAt(res, protos[1], t) = {}
                 /\ ~HeldByBlocker(PoleOver(protos[1], t))
           /\ \E id \in DOMAIN all_entities : ~IsPoleProto(all_entities[id].entity.prototype)
           /\ \E t \in SpotsInside(area, Prototypes[protos[2]].tile_width) :
                 /\ PlacedAt(res, protos[2], t) # {}
                 /\ HeldByOtherCandidate(res, protos, 2, PoleOver(protos[2], t))

\* the entities of the candidates of prototype p in a returned model
CandidatesOfKind(res, p) ==
    {res.all_entities[id].entity : id \in {c \in CandidateIds(res) : res.all_entities[c].entity.prototype = p}}

\* C19: with_all_candidate_poles leaves the model asked unchanged; the returned
\* model holds every entity of it under the same id, with the same tiles and cable
\* set; the candidates of a prototype are the same whatever else is listed, so
\* they depend on the entities of the model asked alone; and no candidate
\* overlaps an entity of the model asked.
C19_CandidatesOnClone ==
    last_call.op = "with_all_candidate_poles" =>
        LET self == last_call.self
            res == last_call.result
            area == last_call.area
            protos == last_call.pole_prototypes
        IN  /\ Model = self
            /\ \A id \in DOMAIN self.all_entities :
                  /\ id \in DOMAIN res.all_entities
                  /\ res.all_entities[id] = self.all_entities[id]
            /\ \A t \in DOMAIN res.by_tile :
                  SelectSeq(res.by_tile[t], LAMBDA id : id \in DOMAIN self.all_entities) =
                      (IF t \in DOMAIN self.by_tile THEN self.by_tile[t] ELSE <<>>)
            /\ DOMAIN self.by_tile \subseteq DOMAIN res.by_tile
            /\ \A c \in CandidateIds(res) : c >= self.next_id
            /\ \A c \in CandidateIds(res) : FreeFor(res.all_entities[c].entity)
            /\ \A k \in 1..Len(protos) :
                  CandidatesOfKind(res, protos[k]) =
                      CandidatesOfKind(WithAllCandidatePoles(self, area, <<protos[k]>>), protos[k])

\* with_all_candidate_poles has just returned, for a model holding two wired poles,
\* two candidates of different prototypes that share a tile
C19_Witness ==
    /\ last_call.op = "with_all_candidate_poles"
    /\ \E id \in DOMAIN all_entities :
          /\ all_entities[id].extra.kind = "Pole"
          /\ all_entities[id].extra.connections # {}
    /\ LET res == last_call.result
       IN  \E c, d \in CandidateIds(res) :
               /\ res.all_entities[c].entity.prototype # res.all_entities[d].entity.prototype
               /\ EntityTiles(res.all_entities[c].entity) \cap
                      EntityTiles(res.all_entities[d].entity) # {}

\* C12: for two distinct stored entities a and b, add_cable_connection(a, b) returns
\* Some iff both are poles within the smaller wire distance; then b joins a's set, a
\* joins b's and nothing else changes, so a repeated call (in either order) changes
\* nothing; and every cable edge between stored entities joins two poles within
\* that distance.
C12_CableConnectionContract ==
    [][ /\ ( /\ last_call'.op = "add_cable_connection"
             /\ last_call'.id # last_call'.other_id
             /\ last_call'.id \in DOMAIN all_entities
             /\ last_call'.other_id \in DOMAIN all_entities ) =>
             LET a == last_call'.id
                 b == last_call'.other_id
                 ok == /\ IsStoredPole(all_entities, a)
                       /\ IsStoredPole(all_entities, b)
                       /\ WithinWireDistance(all_entities, a, b)
             IN  /\ last_call'.result.is_some <=> ok
                 /\ ok =>
                      /\ ~panicked'
                      /\ UNCHANGED <<by_tile, next_id>>
                      /\ all_entities' =
                            [all_entities EXCEPT ![a].extra.connections = @ \cup {b},
                                                 ![b].extra.connections = @ \cup {a}]
                      /\ ( /\ b \in all_entities[a].extra.connections
                           /\ a \in all_entities[b].extra.connections ) =>
                            UNCHANGED all_entities
        /\ CableEdgesWithinReach(all_entities') ]_vars

\* add_cable_connection(b, a) has just succeeded on two poles exactly one wire
\* distance apart that were already joined by add_cable_connection(a, b), while a
\* pole out of reach of the first is stored too
C12_Witness ==
    /\ last_call.op = "add_cable_connection"
    /\ last_call.result.is_some
    /\ last_call.id > last_call.other_id
    /\ LET a == last_call.id
           b == last_call.other_id
       IN  /\ {a, b} \subseteq DOMAIN all_entities
           /\ SqDist(all_entities[a].entity.position, all_entities[b].entity.position) = 16
           /\ \E c \in DOMAIN all_entities :
                 /\ IsStoredPole(all_entities, c)
                 /\ c \notin {a, b}
                 /\ ~WithinWireDistance(all_entities, a, c)

\* C13: add_cable_connection(a, b) on stored entities returns None, does not abort
\* and changes nothing when an endpoint is not a pole, when the poles are farther
\* apart than the smaller wire distance, or when a = b.
C13_CableConnectionNoOp ==
    [][ ( /\ last_call'.op = "add_cable_connection"
          /\ last_call'.id \in DOMAIN all_entities
          /\ last_call'.other_id \in DOMAIN all_entities
          /\ LET a == last_call'.id
                 b == last_call'.other_id
             IN  \/ a = b
                 \/ ~IsStoredPole(all_entities, a)
                 \/ ~IsStoredPole(all_entities, b)
                 \/ ~WithinWireDistance(all_entities, a, b) ) =>
          /\ last_call'.result = None
          /\ ~panicked'
          /\ UNCHANGED <<by_tile, all_entities, next_id>> ]_vars

\* add_cable_connection(a, a) has just been refused for a pole a that has a cable
\* neighbour
C13_Witness ==
    /\ last_call.op = "add_cable_connection"
    /\ last_call.result = None
    /\ last_call.id = last_call.other_id
    /\ IsStoredPole(all_entities, last_call.id)
    /\ all_entities[last_call.id].extra.connections # {}

-----------------------------------------------------------------------------
(* Candidate pole graphs (pole_graph.rs) and the set-cover ILP             *)
(* (pole_solver/mod.rs, pole_solver/set_cover_ilp.rs).                     *)
(* A candidate graph is a graph whose nodes are                            *)
(* [entity: WorldEntity, powered_entities: set of EntityId].               *)

\* the closure of to_cand_pole_graph applied to the nodes from index k on
RECURSIVE CandNodes(_, _, _, _)
CandNodes(m, nodes, k, windows) ==
    IF k > Len(nodes) THEN <<>>
    ELSE LET ws == GetWindowFor("PoleCoverage", m.by_tile, windows, nodes[k])
             items == CurItems(ws[nodes[k].prototype])
             powered == {id \in items : id \in DOMAIN m.all_entities
                                        /\ UsesPower(m.all_entities[id].entity)}
         IN  <<[entity |-> nodes[k], powered_entities |-> powered]>>
                 \o CandNodes(m, nodes, k + 1, ws)

\* BpModel::to_cand_pole_graph
ToCandPoleGraph(m, g) ==
    [built |-> TRUE, nodes |-> CandNodes(m, g.nodes, 1, EmptyMap), edges |-> g.edges]

\* get_pole_coverage_dict
GetPoleCoverageDict(g) ==
    LET covered == UNION {g.nodes[i].powered_entities : i \in 1..Len(g.nodes)}
    IN  [entity_id \in covered |->
            {i \in 1..Len(g.nodes) : entity_id \in g.nodes[i].powered_entities}]

\* add_set_cover_constraints with constraints that any assignment satisfies
AddSetCoverConstraints_Slack(g) ==
    LET dict == GetPoleCoverageDict(g)
    IN  [entity_id \in DOMAIN dict |-> [vars |-> dict[entity_id], at_least |-> 0]]

\* SetCoverILPSolver::add_set_cover_constraints: per covered entity the constraint
\* sum of the variables in vars >= at_least
AddSetCoverConstraints(g) ==
    LET dict == GetPoleCoverageDict(g)
    IN  [entity_id \in DOMAIN dict |-> [vars |-> dict[entity_id], at_least |-> 1]]

RECURSIVE SumOver(_, _)
SumOver(x, S) ==
    IF S = {} THEN 0
    ELSE LET i == CHOOSE i \in S : TRUE IN x[i] + SumOver(x, S \ {i})

\* f64::sqrt of a squared distance; the graphs handed to the connectivity heuristic
\* have nodes in one row or column, so every edge length is a whole number of
\* quarter tiles
Sqrt(n) == CHOOSE r \in 0..n : r * r = n

Neighbors(g, i) ==
    {j \in 1..Len(g.nodes) : \E k \in 1..Len(g.edges) :
        (g.edges[k].a = i /\ g.edges[k].b = j) \/ (g.edges[k].a = j /\ g.edges[k].b = i)}

\* graph.contains_edge
ContainsEdge(g, i, j) ==
    \E k \in 1..Len(g.edges) :
        (g.edges[k].a = i /\ g.edges[k].b = j) \/ (g.edges[k].a = j /\ g.edges[k].b = i)

\* DistanceConnectivity::maximal_clique over the nodes in the order given
RECURSIVE MaximalClique(_, _, _)
MaximalClique(g, nodes, clique) ==
    IF nodes = <<>> THEN clique
    ELSE IF \A k \in 1..Len(clique) : ContainsEdge(g, clique[k], Head(nodes))
    THEN MaximalClique(g, Tail(nodes), Append(clique, Head(nodes)))
    ELSE MaximalClique(g, Tail(nodes), clique)

\* the sort key of find_root_poles: round(square_length * 64 * 64), with the squared
\* length taken in quarter tiles
RootKey(g, idx, pt) == SqDist(g.nodes[idx].entity.position, pt) * 256

\* node_indices().sorted_by_cached_key(..): stable, so equal keys stay in index order
RECURSIVE SortedByKey(_, _, _)
SortedByKey(g, S, pt) ==
    IF S = {} THEN <<>>
    ELSE LET first == CHOOSE i \in S : \A j \in S :
                          \/ RootKey(g, i, pt) < RootKey(g, j, pt)
                          \/ (RootKey(g, i, pt) = RootKey(g, j, pt) /\ i <= j)
         IN  <<first>> \o SortedByKey(g, S \ {first}, pt)

\* DistanceConnectivity::find_root_poles; pt is the point relative_pt_at yields
FindRootPoles(g, pt) == MaximalClique(g, SortedByKey(g, 1..Len(g.nodes), pt), <<>>)

\* mutant of EdgeCost: an edge into a root pole costs as much as any other
EdgeCost_RootsCost(g, roots, k, target) == Sqrt(g.edges[k].weight) + 12

\* the edge cost handed to dijkstra, for the edge of index k walked towards target
EdgeCost(g, roots, k, target) ==
    IF target \in roots THEN 0 ELSE Sqrt(g.edges[k].weight) + 12

\* one round of relaxation of every edge in both directions; dist maps the nodes
\* reached so far to their cost
Relax(g, roots, dist) ==
    LET via(j) == {dist[i] + EdgeCost(g, roots, k, j) :
                      <<i, k>> \in {<<i, k>> \in (DOMAIN dist) \X (1..Len(g.edges)) :
                          \/ (g.edges[k].a = i /\ g.edges[k].b = j)
                          \/ (g.edges[k].a = j /\ g.edges[k].b = i)}}
        reachedNow == (DOMAIN dist) \cup {j \in 1..Len(g.nodes) : via(j) # {}}
        best(S) == CHOOSE c \in S : \A d \in S : c <= d
    IN  [j \in reachedNow |->
            best(via(j) \cup (IF j \in DOMAIN dist THEN {dist[j]} ELSE {}))]

RECURSIVE RelaxRounds(_, _, _, _)
RelaxRounds(g, roots, dist, n) ==
    IF n = 0 THEN dist ELSE RelaxRounds(g, roots, Relax(g, roots, dist), n - 1)

\* petgraph::algo::dijkstra(&graph, pole1, None, cost): the cost of every node
\* reachable from pole1
Dijkstra(g, roots, pole1) ==
    RelaxRounds(g, roots, [i \in {pole1} |-> 0], Len(g.nodes))

\* mutant of ConnectivityConstraints: every neighbour counts, closer or not
ConnectivityConstraints_AnyNeighbor(g, pt, pole1) ==
    LET root_list == FindRootPoles(g, pt)
        root_poles == {root_list[k] : k \in 1..Len(root_list)}
        distances == Dijkstra(g, root_poles, pole1)
    IN  {[pole |-> pole, neighbors |-> Neighbors(g, pole)] :
            pole \in {q \in (DOMAIN distances) \ root_poles : Neighbors(g, q) # {}}}

\* DistanceConnectivity::connectivity_constraints: the constraints
\* x[pole] <= sum of x over neighbors, for the root pole1 taken from the hash set
ConnectivityConstraints(g, pt, pole1) ==
    LET root_list == FindRootPoles(g, pt)
        root_poles == {root_list[k] : k \in 1..Len(root_list)}
        distances == Dijkstra(g, root_poles, pole1)
        closer(pole) == {n \in Neighbors(g, pole) : distances[n] < distances[pole]}
    IN  {[pole |-> pole, neighbors |-> closer(pole)] :
            pole \in {q \in (DOMAIN distances) \ root_poles : closer(q) # {}}}

\* a 0/1 assignment that satisfies every constraint added to the problem
Feasible(x, cover, connect) ==
    /\ \A e \in DOMAIN cover : SumOver(x, cover[e].vars) >= cover[e].at_least
    /\ \A c \in connect : x[c.pole] <= SumOver(x, c.neighbors)

\* graph.filter_map keeping the nodes with solution.value(var) > 0.5; kept nodes
\* are renumbered in index order, edges between kept nodes keep their weight
FilterSelected(g, x) ==
    LET kept == {i \in 1..Len(g.nodes) : 2 * x[i] > 1}
        keptSeq == Ascending(kept)
        newIndex(i) == CHOOSE k \in 1..Len(keptSeq) : keptSeq[k] = i
        keptEdges == SelectSeq(g.edges, LAMBDA e : e.a \in kept /\ e.b \in kept)
    IN  [built |-> TRUE,
         nodes |-> [k \in 1..Len(keptSeq) |-> g.nodes[keptSeq[k]]],
         edges |-> [k \in 1..Len(keptEdges) |->
                      [a |-> newIndex(keptEdges[k].a), b |-> newIndex(keptEdges[k].b),
                       weight |-> keptEdges[k].weight]]]

-----------------------------------------------------------------------------
(* Specification of the solver runs: a model of machines and candidate     *)
(* poles, its maximally-connected graph turned into a candidate graph,     *)
(* and one call of SetCoverILPSolver::solve on it.                         *)

\* the entities of the solver runs: machines at x = 0 and 9 in the row of the poles
\* and at x = 4 in the row below, poles in one row at x = 1, 2, 3, 4 (neighbours
\* within wire reach) and x = 6 (in reach of no other pole, supplying no machine);
\* the machine at x = 9 is supplied by no pole
SolverPool ==
    << WorldEntity("machine", CenterAt("machine", 0, 0), 0),
       WorldEntity("machine", CenterAt("machine", 4, 1), 0),
       WorldEntity("machine", CenterAt("machine", 9, 0), 0),
       WorldEntity("pole", CenterAt("pole", 1, 0), 0),
       WorldEntity("pole", CenterAt("pole", 2, 0), 0),
       WorldEntity("pole", CenterAt("pole", 3, 0), 0),
       WorldEntity("pole", CenterAt("pole", 4, 0), 0),
       WorldEntity("pole", CenterAt("pole", 6, 0), 0) >>

SolverModels == {BuildModel(NewModel, es) : es \in SubSeqs(SolverPool)}

\* SetCoverILPSolver.connectivity: None, or Some with the point that
\* relative_pt_at(center_rel_pos) yields on the bounding box of the poles
NoConnectivity == [is_some |-> FALSE]
SomeConnectivity(pt) == [is_some |-> TRUE, pt |-> pt]
Connectivities ==
    {NoConnectivity} \cup {SomeConnectivity(pt) : pt \in {<<6, 2>>, <<14, 2>>}}

InitSolver ==
    \E m \in SolverModels :
        LET g == GetMaximallyConnectedPoleGraph(m, Ascending(DOMAIN m.all_entities))
        IN  /\ by_tile = m.by_tile
            /\ all_entities = m.all_entities
            /\ next_id = m.next_id
            /\ panicked = FALSE
            /\ issued = <<>>
            /\ last_call = Untraced
            /\ NoBlueprint
            /\ NoWindow
            /\ pole_graph = g
            /\ cand_graph = ToCandPoleGraph(m, g)
            /\ solution = NoSolution
            /\ NoConnector

\* the assignments the solver may hand back for a problem over n variables
Assignments(n) == [1..n -> {0, 1}]

\* SetCoverILPSolver::solve
Solve(connectivity) ==
    /\ ~panicked
    /\ cand_graph.built
    /\ solution = NoSolution
    /\ IF connectivity.is_some /\ FindRootPoles(cand_graph, connectivity.pt) = <<>>
       THEN \* root_poles.iter().next().unwrap() on an empty set
            /\ panicked' = TRUE
            /\ UNCHANGED solution
       ELSE /\ UNCHANGED panicked
            /\ \E pole1 \in 1..Max(1, Len(cand_graph.nodes)) :
                LET roots == IF connectivity.is_some
                             THEN FindRootPoles(cand_graph, connectivity.pt) ELSE <<>>
                    cover == AddSetCoverConstraints(cand_graph)
                    connect == IF connectivity.is_some
                               THEN ConnectivityConstraints(cand_graph, connectivity.pt, pole1)
                               ELSE {}
                IN  /\ connectivity.is_some => \E k \in 1..Len(roots) : roots[k] = pole1
                    /\ ~connectivity.is_some => pole1 = 1
                    /\ \/ \E x \in Assignments(Len(cand_graph.nodes)) :
                            /\ Feasible(x, cover, connect)
                            /\ solution' = [status |-> "ok", x |-> x,
                                            connectivity |-> connectivity,
                                            pole1 |-> pole1,
                                            graph |-> FilterSelected(cand_graph, x)]
                       \/ \* problem.solve()? gives up (time limit, solver error)
                          solution' = [status |-> "err"]
    /\ UNCHANGED <<modelVars, windowVars, pole_graph, cand_graph, connectorVars, issued, last_call, blueprintVars>>

NextSolver == \E connectivity \in Connectivities : Solve(connectivity)

SpecSolver == InitSolver /\ [][NextSolver]_vars

-----------------------------------------------------------------------------
(* Claims about the set-cover ILP *)

\* the consumers in the powered_entities set of at least one node of g
CoveredBy(g) == UNION {g.nodes[i].powered_entities : i \in 1..Len(g.nodes)}

AllOnes(g) == [i \in 1..Len(g.nodes) |-> 1]

\* C1: in the graph solve returns, every consumer in the powered_entities set of some
\* candidate node is in the powered_entities set of some selected node; consumers
\* covered by no candidate get no constraint, and selecting every candidate is
\* feasible whatever the connectivity setting.
C1_CoveredStayCovered ==
    /\ solution.status = "ok" =>
          /\ CoveredBy(solution.graph) = CoveredBy(cand_graph)
          /\ \A i \in 1..Len(cand_graph.nodes) :
                solution.x[i] = 1 <=>
                    \E k \in 1..Len(solution.graph.nodes) :
                        solution.graph.nodes[k] = cand_graph.nodes[i]
    /\ cand_graph.built =>
          /\ DOMAIN AddSetCoverConstraints(cand_graph) = CoveredBy(cand_graph)
          /\ Feasible(AllOnes(cand_graph), AddSetCoverConstraints(cand_graph), {})
          /\ \A c \in Connectivities : \A pole1 \in 1..Len(cand_graph.nodes) :
                (c.is_some /\ \E k \in 1..Len(FindRootPoles(cand_graph, c.pt)) :
                                  FindRootPoles(cand_graph, c.pt)[k] = pole1)
                    => Feasible(AllOnes(cand_graph), AddSetCoverConstraints(cand_graph),
                                ConnectivityConstraints(cand_graph, c.pt, pole1))

\* a solution that leaves a candidate out, of a problem with a covered consumer, a
\* consumer covered by two candidates and a consumer no candidate covers
C1_Witness ==
    /\ solution.status = "ok"
    /\ \E i \in 1..Len(cand_graph.nodes) : solution.x[i] = 0
    /\ CoveredBy(cand_graph) # {}
    /\ \E e \in CoveredBy(cand_graph) :
          Cardinality(GetPoleCoverageDict(cand_graph)[e]) >= 2
    /\ \E id \in DOMAIN all_entities :
          /\ UsesPower(all_entities[id].entity)
          /\ id \notin CoveredBy(cand_graph)

\* the candidates selected by the solution
SelectedPoles == {i \in 1..Len(cand_graph.nodes) : solution.x[i] = 1}

\* the root clique of the solved run
SolvedRoots ==
    LET root_list == FindRootPoles(cand_graph, solution.connectivity.pt)
    IN  {root_list[k] : k \in 1..Len(root_list)}

\* the Dijkstra distances of the solved run
SolvedDistances == Dijkstra(cand_graph, SolvedRoots, solution.pole1)

\* the selected poles joined to S by candidate edges between selected poles
RECURSIVE SelectedReach(_)
SelectedReach(S) ==
    LET step == S \cup {q \in SelectedPoles :
                            \E p \in S : ContainsEdge(cand_graph, p, q)}
    IN  IF step = S THEN S ELSE SelectedReach(step)

\* C17: under DistanceConnectivity every selected pole that is not a root and has
\* a finite Dijkstra distance from the root clique has a selected neighbour
\* strictly closer to the roots, so it is joined through selected poles to a
\* selected root, and all the selected poles reachable from the root set form
\* one connected piece of the candidate graph.
C17_SelectedReachRoot ==
    (solution.status = "ok" /\ solution.connectivity.is_some) =>
        LET reachable == SelectedPoles \cap DOMAIN SolvedDistances
        IN  /\ \A p \in reachable \ SolvedRoots :
                  /\ \E q \in Neighbors(cand_graph, p) \cap SelectedPoles :
                        /\ q \in DOMAIN SolvedDistances
                        /\ SolvedDistances[q] < SolvedDistances[p]
                  /\ SelectedReach({p}) \cap SolvedRoots # {}
            /\ \A p, q \in reachable : q \in SelectedReach({p})

\* a solved run that selects a pole two edges away from the root clique, leaves a
\* candidate unselected and selects a pole that no path joins to the roots
C17_Witness ==
    /\ solution.status = "ok"
    /\ solution.connectivity.is_some
    /\ \E p, q \in (SelectedPoles \cap DOMAIN SolvedDistances) \ SolvedRoots :
          /\ ContainsEdge(cand_graph, p, q)
          /\ SolvedDistances[q] < SolvedDistances[p]
    /\ \E i \in 1..Len(cand_graph.nodes) : solution.x[i] = 0
    /\ \E i \in SelectedPoles : i \notin DOMAIN SolvedDistances

-----------------------------------------------------------------------------
(* Pole connectors (pole_solver/connections.rs).                           *)
(* Edge weights and heap keys are squared lengths in quarter tiles, so a   *)
(* factor f on a weight is the factor f * f on its square.  A key at or    *)
(* above KeyOverflow stands for +inf, the value a key reaches when it is   *)
(* multiplied beyond the range of f64.                                     *)

MAX_DEGREE == 5

\* keys from KeyOverflow on are +inf
KeyOverflow == 100000

\* DEGREE_MULT = [1.0, 1.0, 1.0, 1.5, 5.0], as fractions; entry d + 1 is for degree d
DEGREE_MULT ==
    << [num |-> 1, den |-> 1], [num |-> 1, den |-> 1], [num |-> 1, den |-> 1],
       [num |-> 3, den |-> 2], [num |-> 5, den |-> 1] >>

\* weight * DEGREE_MULT[max_deg] on a squared key; the quotient is rounded down and
\* +inf times a factor is +inf
MulKey(key, max_deg) ==
    LET f == DEGREE_MULT[max_deg + 1]
    IN  IF key >= KeyOverflow THEN KeyOverflow
        ELSE Min(KeyOverflow, (key * f.num * f.num) \div (f.den * f.den))

\* WithPosition::position for WorldEntity and CandPoleNode
PositionOf(node) == IF "entity" \in DOMAIN node THEN node.entity.position ELSE node.position

\* the degree read from the target end of the edges only
Degree_TargetOnly(g, n) == Cardinality({k \in 1..Len(g.edges) : g.edges[k].b = n})

\* graph.neighbors(n).count(): the edges at n
Degree(g, n) == Cardinality({k \in 1..Len(g.edges) : g.edges[k].a = n \/ g.edges[k].b = n})


\* the start of WeightedMSTConnector::connect_poles: result with the nodes of graph
NewResult(graph) == [built |-> TRUE, nodes |-> graph.nodes, edges |-> <<>>]

\* the heap after every edge of graph has been pushed with its weight as key
\* (pushed_at is history: the degrees of the two ends when the entry was pushed
\* again, <<>> for the first push)
InitialHeap(graph) ==
    {[key |-> graph.edges[k].weight, orig_weight |-> graph.edges[k].weight,
      source |-> graph.edges[k].a, target |-> graph.edges[k].b,
      pushed_at |-> <<>>] : k \in 1..Len(graph.edges)}

\* a union-find that starts with every node in one class
NewUnionFind_OneClass(n) == [i \in 1..n |-> 1]

\* UnionFind::new
NewUnionFind(n) == [i \in 1..n |-> i]

\* UnionFind::union of two classes that differ
Union(u, x, y) == [i \in DOMAIN u |-> IF u[i] = u[y] THEN u[x] ELSE u[i]]

\* Vector2D::cross and Vector2D::dot
Sub(p, q) == <<p[1] - q[1], p[2] - q[2]>>
Cross(u, v) == u[1] * v[2] - u[2] * v[1]
Dot(u, v) == u[1] * v[1] + u[2] * v[2]

\* the sign bit of the f64 u.cross(v) = u.x * v.y - u.y * v.x: set for a negative
\* value and for -0.0, which is what -0.0 - (+0.0) gives; a zero component of a
\* difference of positions is +0.0
CrossSignBit(u, v) ==
    LET firstIsNegZero == (u[1] = 0 /\ v[2] < 0) \/ (v[2] = 0 /\ u[1] < 0)
        secondIsNegZero == (u[2] = 0 /\ v[1] < 0) \/ (v[1] = 0 /\ u[2] < 0)
    IN  IF Cross(u, v) # 0 THEN Cross(u, v) < 0
        ELSE u[1] * v[2] = 0 /\ firstIsNegZero /\ ~secondIsNegZero

\* is_left: cross.is_positive(), true for +0.0
IsLeft(base, a, b) == ~CrossSignBit(Sub(a, base), Sub(b, base))

\* orientation(a, b, c).signum(): 1.0 for positive values and +0.0, else -1.0
OrientationSignum(a, b, c) == IF CrossSignBit(Sub(b, a), Sub(c, a)) THEN -1 ELSE 1

\* line_seg_intersects
LineSegIntersects(a, b, c, d) ==
    /\ OrientationSignum(a, b, c) # OrientationSignum(a, b, d)
    /\ OrientationSignum(c, d, a) # OrientationSignum(c, d, b)

\* |ab.angle_to(ac)| < 30 degrees: tan^2(30) = 1/3
AngleBelowMin(ab, ac) == Dot(ab, ac) > 0 /\ 3 * Cross(ab, ac) * Cross(ab, ac) < Dot(ab, ac) * Dot(ab, ac)

\* the angle from the direction un to the direction up, counter-clockwise, is below
\* 100 degrees: tan(10 degrees) = 0.176327
TurnBelowMinAdjacent(un, up) ==
    /\ Cross(un, up) > 0
    /\ \/ Dot(un, up) >= 0
       \/ (-Dot(un, up)) * 1000000 < Cross(un, up) * 176327

\* the angle tests of can_connect at the endpoint a of the edge towards b: TRUE when
\* the edge is rejected.  The angles are those of the edges of res_graph at a; the
\* negative ones have a negative cross product, and p_min - n_max is the smallest
\* turn from a negative to a non-negative one
AnglesReject(cand, res, a, b) ==
    LET pos_a == PositionOf(cand.nodes[a])
        ab == Sub(PositionOf(cand.nodes[b]), pos_a)
        dirs == {Sub(PositionOf(cand.nodes[n]), pos_a) : n \in Neighbors(res, a)}
        n_dirs == {ac \in dirs : Cross(ab, ac) < 0}
        p_dirs == dirs \ n_dirs
    IN  \/ \E ac \in dirs : AngleBelowMin(ab, ac)
        \/ \E un \in n_dirs : \E up \in p_dirs : TurnBelowMinAdjacent(un, up)

\* the crossing test of can_connect: TRUE when an edge of res_graph between a left
\* and a right neighbour is found to intersect a-b
CrossingFound(cand, res, a, b) ==
    LET pos_a == PositionOf(cand.nodes[a])
        pos_b == PositionOf(cand.nodes[b])
        around == (Neighbors(cand, a) \cup Neighbors(cand, b)) \ {a, b}
        left == {idx \in around : IsLeft(pos_a, pos_b, PositionOf(cand.nodes[idx]))}
        right == around \ left
    IN  \E l \in left : \E r \in right :
            /\ ContainsEdge(res, l, r)
            /\ LineSegIntersects(pos_a, pos_b, PositionOf(cand.nodes[l]),
                                 PositionOf(cand.nodes[r]))

\* PrettyPoleConnector::can_connect
CanConnect(cand, res, a, b) ==
    /\ ~ContainsEdge(res, a, b)
    /\ ~(Degree(res, a) >= MAX_DEGREE \/ Degree(res, b) >= MAX_DEGREE)
    /\ ~CrossingFound(cand, res, a, b)
    /\ ~AnglesReject(cand, res, a, b)
    /\ ~AnglesReject(cand, res, b, a)

RECURSIVE Gcd(_, _)
Gcd(x, y) == IF y = 0 THEN x ELSE Gcd(y, x % y)

\* PrettyPoleConnector::edge_weight of e is below that of f.  With (rx, ry) the edge
\* direction in lowest terms, l = rx^2 + ry^2 and d = l + 2 (|rx| - |ry|)^2, the
\* square of edge_weight is weight^2 * l^2 / d^2
PrettyParts(graph, e) ==
    LET v == Sub(PositionOf(graph.nodes[e.b]), PositionOf(graph.nodes[e.a]))
        g == Gcd(Abs(v[1]), Abs(v[2]))
        rx == Abs(v[1]) \div g
        ry == Abs(v[2]) \div g
        l == rx * rx + ry * ry
    IN  [l |-> l, d |-> l + 2 * (rx - ry) * (rx - ry)]

PrettyLess(graph, e, f) ==
    LET pe == PrettyParts(graph, e)
        pf == PrettyParts(graph, f)
    IN  e.weight * pe.l * pe.l * pf.d * pf.d < f.weight * pf.l * pf.l * pe.d * pe.d

\* the edges sorted by edge_weight; sorted_by is stable, so edges of equal weight
\* stay in the order of the edge list
RECURSIVE SortPretty(_, _)
SortPretty(graph, idxs) ==
    IF idxs = {} THEN <<>>
    ELSE LET first == CHOOSE i \in idxs : \A j \in idxs \ {i} :
                          \/ PrettyLess(graph, graph.edges[i], graph.edges[j])
                          \/ (~PrettyLess(graph, graph.edges[j], graph.edges[i]) /\ i < j)
         IN  <<graph.edges[first]>> \o SortPretty(graph, idxs \ {first})

-----------------------------------------------------------------------------
(* Specification of the connector runs: PrettyPoleConnector::connect_poles *)
(* on the maximally-connected graph of a model of poles, one step of its   *)
(* loops at a time.  Entries of equal key leave the heap in an order the   *)
(* source does not fix, so any of them may be the one popped.              *)

\* two poles of short reach one above the other, a pole of long reach beside them
\* and one of long reach on their far side
CrossLayout ==
    << WorldEntity("smallpole", CenterAt("smallpole", 5, 2), 0),
       WorldEntity("smallpole", CenterAt("smallpole", 5, 0), 0),
       WorldEntity("mediumpole", CenterAt("mediumpole", 6, 1), 0),
       WorldEntity("mediumpole", CenterAt("mediumpole", 2, 2), 0) >>

\* a pole of long reach with six poles around it, no two of which reach each other
StarLayout ==
    << WorldEntity("mediumpole", CenterAt("mediumpole", 4, 4), 0),
       WorldEntity("mediumpole", CenterAt("mediumpole", 8, 6), 0),
       WorldEntity("mediumpole", CenterAt("mediumpole", 0, 6), 0),
       WorldEntity("mediumpole", CenterAt("mediumpole", 4, 0), 0),
       WorldEntity("smallpole", CenterAt("smallpole", 4, 6), 0),
       WorldEntity("smallpole", CenterAt("smallpole", 6, 3), 0),
       WorldEntity("smallpole", CenterAt("smallpole", 2, 3), 0) >>

ConnectorModels ==
    {BuildModel(NewModel, es) : es \in SubSeqs(CrossLayout) \cup SubSeqs(StarLayout)}

InitConnector ==
    \E m \in ConnectorModels :
        LET g == GetMaximallyConnectedPoleGraph(m, Ascending(DOMAIN m.all_entities))
        IN  /\ by_tile = m.by_tile
            /\ all_entities = m.all_entities
            /\ next_id = m.next_id
            /\ panicked = FALSE
            /\ issued = <<>>
            /\ last_call = Untraced
            /\ NoBlueprint
            /\ NoWindow
            /\ pole_graph = g
            /\ cand_graph = NoGraph
            /\ solution = NoSolution
            /\ conn_graph = g
            /\ res_graph = NewResult(g)
            /\ sort_edges = InitialHeap(g)
            /\ uf = NewUnionFind(Len(g.nodes))
            /\ pretty_edges = <<>>
            /\ conn_stage = "mst"
            /\ first_result = NoGraph

restOfConnector == <<modelVars, windowVars, pole_graph, cand_graph, solution, conn_graph,
                     first_result, panicked, issued, last_call, blueprintVars>>

\* one turn of the while loop of WeightedMSTConnector::connect_poles
MstPop(entry) ==
    /\ conn_stage = "mst"
    /\ entry \in sort_edges
    /\ \A other \in sort_edges : entry.key <= other.key
    /\ LET rest == sort_edges \ {entry}
           max_deg == Max(Degree(res_graph, entry.source), Degree(res_graph, entry.target))
       IN  IF uf[entry.source] = uf[entry.target] \/ max_deg >= MAX_DEGREE
           THEN /\ sort_edges' = rest
                /\ UNCHANGED <<res_graph, uf>>
           ELSE IF MulKey(entry.key, max_deg) > entry.key
           THEN /\ sort_edges' = rest \cup
                    {[entry EXCEPT !.key = MulKey(entry.key, max_deg),
                                   !.pushed_at = <<Degree(res_graph, entry.source),
                                                   Degree(res_graph, entry.target)>>]}
                /\ UNCHANGED <<res_graph, uf>>
           ELSE /\ sort_edges' = rest
                /\ uf' = Union(uf, entry.source, entry.target)
                /\ res_graph' = [res_graph EXCEPT !.edges =
                       Append(@, [a |-> entry.source, b |-> entry.target,
                                  weight |-> entry.orig_weight])]
    /\ UNCHANGED <<pretty_edges, conn_stage, restOfConnector>>

\* the heap is empty: WeightedMSTConnector returns and PrettyPoleConnector sorts
\* the edges of graph
StartPretty ==
    /\ conn_stage = "mst"
    /\ sort_edges = {}
    /\ pretty_edges' = SortPretty(conn_graph, 1..Len(conn_graph.edges))
    /\ conn_stage' = "pretty"
    /\ UNCHANGED <<res_graph, sort_edges, uf, restOfConnector>>

\* one turn of the for loop of PrettyPoleConnector::connect_poles
PrettyStep ==
    /\ conn_stage = "pretty"
    /\ pretty_edges # <<>>
    /\ LET e == Head(pretty_edges)
       IN  res_graph' = IF CanConnect(conn_graph, res_graph, e.a, e.b)
                        THEN UpdateEdge(res_graph, e.a, e.b, e.weight)
                        ELSE res_graph
    /\ pretty_edges' = Tail(pretty_edges)
    /\ UNCHANGED <<sort_edges, uf, conn_stage, restOfConnector>>

\* connect_poles returns result
FinishConnect ==
    /\ conn_stage = "pretty"
    /\ pretty_edges = <<>>
    /\ conn_stage' = "done"
    /\ UNCHANGED <<res_graph, sort_edges, uf, pretty_edges, restOfConnector>>

NextConnector ==
    \/ \E entry \in sort_edges : MstPop(entry)
    \/ StartPretty
    \/ PrettyStep
    \/ FinishConnect

SpecConnector == InitConnector /\ [][NextConnector]_vars

\* four poles of one kind: the edges P1-P2, P1-P3 and P3-P4 have the same length,
\* P2-P4 is shorter, P2-P3 longer, and P1 and P4 are out of each other's reach
TieLayout ==
    << WorldEntity("mediumpole", CenterAt("mediumpole", 3, 1), 0),
       WorldEntity("mediumpole", CenterAt("mediumpole", 1, 4), 0),
       WorldEntity("mediumpole", CenterAt("mediumpole", 5, 4), 0),
       WorldEntity("mediumpole", CenterAt("mediumpole", 2, 6), 0) >>

ReconnectModels ==
    {BuildModel(NewModel, es) : es \in SubSeqs(TieLayout) \cup SubSeqs(CrossLayout)}

\* the runs that call connect_poles a second time, on what the first call returned
InitReconnect ==
    \E m \in ReconnectModels :
        LET g == GetMaximallyConnectedPoleGraph(m, Ascending(DOMAIN m.all_entities))
        IN  /\ by_tile = m.by_tile
            /\ all_entities = m.all_entities
            /\ next_id = m.next_id
            /\ panicked = FALSE
            /\ issued = <<>>
            /\ last_call = Untraced
            /\ NoBlueprint
            /\ NoWindow
            /\ pole_graph = g
            /\ cand_graph = NoGraph
            /\ solution = NoSolution
            /\ conn_graph = g
            /\ res_graph = NewResult(g)
            /\ sort_edges = InitialHeap(g)
            /\ uf = NewUnionFind(Len(g.nodes))
            /\ pretty_edges = <<>>
            /\ conn_stage = "mst"
            /\ first_result = NoGraph

\* PrettyPoleConnector::connect_poles called on the graph it has just returned
Reconnect ==
    /\ conn_stage = "done"
    /\ ~first_result.built
    /\ first_result' = res_graph
    /\ conn_graph' = res_graph
    /\ res_graph' = NewResult(res_graph)
    /\ sort_edges' = InitialHeap(res_graph)
    /\ uf' = NewUnionFind(Len(res_graph.nodes))
    /\ pretty_edges' = <<>>
    /\ conn_stage' = "mst"
    /\ UNCHANGED <<modelVars, windowVars, pole_graph, cand_graph, solution, panicked, issued,
                   last_call, blueprintVars>>

NextReconnect ==
    \/ \E entry \in sort_edges : MstPop(entry)
    \/ StartPretty
    \/ PrettyStep
    \/ FinishConnect
    \/ Reconnect

SpecReconnect == InitReconnect /\ [][NextReconnect]_vars

-----------------------------------------------------------------------------
(* Specification of the runs that build the maximally-connected graph of   *)
(* one model twice, the hash maps yielding the ids in another order the    *)
(* second time, and call connect_poles on each graph.                      *)

\* get_maximally_connected_pole_graph and connect_poles once more on the same
\* model: pole_graph and first_result keep the graph and the result of the first run
Reenumerate(order) ==
    /\ conn_stage = "done"
    /\ ~first_result.built
    /\ LET g == GetMaximallyConnectedPoleGraph(Model, order)
       IN  /\ conn_graph' = g
           /\ res_graph' = NewResult(g)
           /\ sort_edges' = InitialHeap(g)
           /\ uf' = NewUnionFind(Len(g.nodes))
    /\ first_result' = res_graph
    /\ pretty_edges' = <<>>
    /\ conn_stage' = "mst"
    /\ UNCHANGED <<modelVars, windowVars, pole_graph, cand_graph, solution, panicked, issued,
                   last_call, blueprintVars>>

NextReorder ==
    \/ \E entry \in sort_edges : MstPop(entry)
    \/ StartPretty
    \/ PrettyStep
    \/ FinishConnect
    \/ \E order \in ValueOrders : Reenumerate(order)

SpecReorder == InitReconnect /\ [][NextReorder]_vars

\* the wires of a graph as pairs of pole positions
WiresOf(g) ==
    {{PositionOf(g.nodes[g.edges[k].a]), PositionOf(g.nodes[g.edges[k].b])} :
        k \in 1..Len(g.edges)}

\* the pole positions of a graph
PolesOf(g) == {PositionOf(g.nodes[i]) : i \in 1..Len(g.nodes)}

\* C21: the maximally-connected graph of a model and the wires connect_poles
\* chooses on it do not depend on the order in which the hash maps yield the ids
\* (node indices, edge insertion order), equal edge weights included: a second
\* build and run on the same model gives the same poles and the same wires.
C21_SameWiresInAnyOrder ==
    first_result.built =>
        /\ PolesOf(conn_graph) = PolesOf(pole_graph)
        /\ WiresOf(conn_graph) = WiresOf(pole_graph)
        /\ conn_stage = "done" => WiresOf(res_graph) = WiresOf(first_result)

-----------------------------------------------------------------------------
(* Claims about the connectors *)

\* the edges of g that end at n
IncidentEdges(g, n) == {k \in 1..Len(g.edges) : n \in {g.edges[k].a, g.edges[k].b}}

\* the segments p-q and r-t cross at a point inside both
ProperlyCross(p, q, r, t) ==
    /\ Cross(Sub(q, p), Sub(r, p)) * Cross(Sub(q, p), Sub(t, p)) < 0
    /\ Cross(Sub(t, r), Sub(p, r)) * Cross(Sub(t, r), Sub(q, r)) < 0

EdgesCross(g, j, k) ==
    ProperlyCross(PositionOf(g.nodes[g.edges[j].a]), PositionOf(g.nodes[g.edges[j].b]),
                  PositionOf(g.nodes[g.edges[k].a]), PositionOf(g.nodes[g.edges[k].b]))

\* the nodes joined to a node of S by a path of g
RECURSIVE ReachFrom(_, _)
ReachFrom(g, S) ==
    LET next == S \cup UNION {Neighbors(g, n) : n \in S}
    IN  IF next = S THEN S ELSE ReachFrom(g, next)

Connected(g, u, v) == v \in ReachFrom(g, {u})

\* H has the nodes of G at the same indices and each of its edges is an edge of G
\* with the same weight
IsSubgraph(h, g) ==
    /\ h.nodes = g.nodes
    /\ \A k \in 1..Len(h.edges) : \E j \in 1..Len(g.edges) :
          /\ {h.edges[k].a, h.edges[k].b} = {g.edges[j].a, g.edges[j].b}
          /\ h.edges[k].weight = g.edges[j].weight

\* C4: every node of the graph connect_poles builds has degree at most 5.
C4_DegreeAtMostFive ==
    res_graph.built =>
        \A n \in 1..Len(res_graph.nodes) : Cardinality(IncidentEdges(res_graph, n)) <= MAX_DEGREE

\* a finished run in which a pole with six candidate wires got five
C4_Witness ==
    /\ conn_stage = "done"
    /\ \E n \in 1..Len(res_graph.nodes) :
          /\ Cardinality(IncidentEdges(res_graph, n)) = MAX_DEGREE
          /\ Cardinality(IncidentEdges(conn_graph, n)) > MAX_DEGREE

\* C5: no two edges of the graph connect_poles builds on a maximally-connected graph
\* cross in the plane.
C5_NoCrossing ==
    res_graph.built =>
        \A j, k \in 1..Len(res_graph.edges) : j # k => ~EdgesCross(res_graph, j, k)

\* C6, as stated: the result is a subgraph of the input on the same nodes and any
\* two nodes joined by a path of the input are joined by a path of the result.
C6_SubgraphSpans ==
    conn_stage = "done" =>
        /\ IsSubgraph(res_graph, conn_graph)
        /\ \A u, v \in 1..Len(conn_graph.nodes) :
              Connected(conn_graph, u, v) => Connected(res_graph, u, v)

\* C6, amended: the result is a subgraph of the input on the same nodes, and the two
\* ends of an edge of the input are joined by a path of the result unless one of them
\* has degree 5 in the result.
C6_SubgraphSpansUpToDegree ==
    conn_stage = "done" =>
        /\ IsSubgraph(res_graph, conn_graph)
        /\ \A k \in 1..Len(conn_graph.edges) :
              LET u == conn_graph.edges[k].a
                  v == conn_graph.edges[k].b
              IN  \/ Connected(res_graph, u, v)
                  \/ Cardinality(IncidentEdges(res_graph, u)) = MAX_DEGREE
                  \/ Cardinality(IncidentEdges(res_graph, v)) = MAX_DEGREE

\* a finished run on a connected graph of seven poles: six of them are joined by
\* the result, the seventh is cut off from a pole of degree 5
C6_Witness ==
    /\ conn_stage = "done"
    /\ Len(conn_graph.nodes) = 7
    /\ \A u, v \in 1..Len(conn_graph.nodes) : Connected(conn_graph, u, v)
    /\ \E u \in 1..Len(res_graph.nodes) :
          /\ Cardinality(ReachFrom(res_graph, {u})) = 6
          /\ \E v \in Neighbors(conn_graph, u) : ~Connected(res_graph, u, v)

\* the edges of a graph as a set of unordered pairs of nodes
EdgeSet(g) == {{g.edges[k].a, g.edges[k].b} : k \in 1..Len(g.edges)}

\* C14: connect_poles is idempotent on edge sets: called on the graph it returned,
\* it returns a graph with exactly the same set of edges.
C14_Idempotent ==
    (conn_stage = "done" /\ first_result.built) =>
        EdgeSet(res_graph) = EdgeSet(first_result)

\* the entry was popped and pushed again, with whatever key
Repushed(entry) ==
    /\ MstPop(entry)
    /\ \E again \in sort_edges' :
          /\ again.source = entry.source /\ again.target = entry.target
          /\ again \notin sort_edges

\* the entry was popped and its edge was added to the result
Committed(entry) ==
    /\ MstPop(entry)
    /\ sort_edges' = sort_edges \ {entry}
    /\ Len(res_graph'.edges) = Len(res_graph.edges) + 1
    /\ ContainsEdge(res_graph', entry.source, entry.target)

\* C26: in the loop of WeightedMSTConnector::connect_poles an edge that was pushed
\* again and whose ends have the degrees they had at that push is committed or
\* dropped the next time it is popped; it is not pushed once more.
C26_RepushedSettlesNextPop ==
    [][\A entry \in sort_edges :
          (/\ entry.pushed_at = <<Degree(res_graph, entry.source),
                                  Degree(res_graph, entry.target)>>
           /\ MstPop(entry))
          => ~Repushed(entry)]_vars

\* C27: when the MST stage pops an edge whose ends are in different components and
\* have degree below 5, the effective weight is the raw weight times
\* DEGREE_MULT[max degree of the ends]; the edge is committed iff that does not
\* exceed the key it was popped with, and is otherwise pushed again with the
\* effective weight as its key.
C27_EffectiveWeightFromRaw ==
    [][\A entry \in sort_edges :
          LET max_deg == Max(Degree(res_graph, entry.source), Degree(res_graph, entry.target))
              effective == MulKey(entry.orig_weight, max_deg)
          IN  (/\ MstPop(entry)
               /\ uf[entry.source] # uf[entry.target]
               /\ max_deg < MAX_DEGREE)
              => /\ Committed(entry) <=> effective <= entry.key
                 /\ ~Committed(entry) =>
                        \E again \in sort_edges' :
                            /\ again.source = entry.source /\ again.target = entry.target
                            /\ again.key = effective]_vars

-----------------------------------------------------------------------------
(* BlueprintEntities (better_bp.rs): the entities of a blueprint as they   *)
(* are read from and written to the blueprint format.  A blueprint is a    *)
(* sequence of fbp::Entity records; the model of it is a map from EntityId *)
(* to [id, data, connections: a pair of connection points, neighbours].    *)
(* A connection point and a neighbour set are Options of sets.             *)

\* EntityId(entity_number.get() as u32): the entity numbers of the runs are far
\* below 2^32, where the cast keeps the number
EntityIdOf(entity_number) == entity_number

\* the BlueprintEntityData read from an fbp::Entity
ImportData(entity) ==
    [name |-> entity.name,
     position |-> entity.position,
     direction |-> entity.direction,
     request_from_buffers |-> IF entity.request_from_buffers.is_some
                              THEN entity.request_from_buffers.value ELSE FALSE]

\* BlueprintEntity::new
NewBlueprintEntity(id, data) ==
    [id |-> id, data |-> data, connections |-> <<None, None>>, neighbours |-> None]

\* Option::get_or_insert_with(HashSet::new).insert(x)
InsertInto(opt, x) == Some((IF opt.is_some THEN opt.value ELSE {}) \cup {x})

\* the first pass of from_blueprint: collect (id, entity) pairs into a HashMap, a
\* later entry of the same number replacing an earlier one
RECURSIVE CollectEntities(_, _)
CollectEntities(ents, bp) ==
    IF bp = <<>> THEN ents
    ELSE LET id == EntityIdOf(Head(bp).entity_number)
         IN  CollectEntities([k \in (DOMAIN ents) \cup {id} |->
                                 IF k = id THEN NewBlueprintEntity(id, ImportData(Head(bp)))
                                 ELSE ents[k]],
                             Tail(bp))

\* BlueprintEntities::add_cable_connection, on the map ents
EntitiesAddCableConnection(ents, entity1, entity2) ==
    IF entity1 = entity2 \/ entity1 \notin DOMAIN ents \/ entity2 \notin DOMAIN ents
    THEN ents
    ELSE [ents EXCEPT ![entity1].neighbours = InsertInto(@, entity2),
                      ![entity2].neighbours = InsertInto(@, entity1)]

\* BlueprintEntities::add_wire_connection, on the map ents
EntitiesAddWireConnection(ents, p1, p2, color) ==
    IF p1 = p2 \/ p1.entity_id \notin DOMAIN ents \/ p2.entity_id \notin DOMAIN ents
    THEN ents
    ELSE LET pt1 == IF p1.circuit_id THEN 2 ELSE 1
             pt2 == IF p2.circuit_id THEN 2 ELSE 1
             first == [ents EXCEPT ![p1.entity_id].connections[pt1] =
                                      InsertInto(@, [dest |-> p2, color |-> color])]
         IN  [first EXCEPT ![p2.entity_id].connections[pt2] =
                              InsertInto(@, [dest |-> p1, color |-> color])]

\* the second pass of from_blueprint: the neighbours of one blueprint entity
RECURSIVE ImportNeighbours(_, _, _)
ImportNeighbours(ents, id, neighbors) ==
    IF neighbors = <<>> THEN ents
    ELSE ImportNeighbours(EntitiesAddCableConnection(ents, id, EntityIdOf(Head(neighbors))),
                          id, Tail(neighbors))

RECURSIVE ImportAllNeighbours(_, _)
ImportAllNeighbours(ents, bp) ==
    IF bp = <<>> THEN ents
    ELSE IF ~Head(bp).neighbours.is_some THEN ImportAllNeighbours(ents, Tail(bp))
    ELSE ImportAllNeighbours(
             ImportNeighbours(ents, EntityIdOf(Head(bp).entity_number),
                              Head(bp).neighbours.value),
             Tail(bp))

\* add_colors of import_connections
RECURSIVE AddColors(_, _, _)
AddColors(pt, color, data) ==
    IF data = <<>> THEN pt
    ELSE LET connection == Head(data)
             circuit_id == IF connection.circuit_id.is_some
                           THEN connection.circuit_id.value ELSE 1
         IN  AddColors(InsertInto(pt, [dest |-> [entity_id |-> EntityIdOf(connection.entity_id),
                                                 circuit_id |-> (circuit_id = 2)],
                                       color |-> color]),
                       color, Tail(data))

\* add_pt of import_connections
AddPt(pt, data) ==
    LET red == IF data.red.is_some THEN AddColors(pt, "Red", data.red.value) ELSE pt
    IN  IF data.green.is_some THEN AddColors(red, "Green", data.green.value) ELSE red

\* the connections of index "1"/"2" (StringIdx) or 1/2 (NumberIdx), as an Option
ConnectionAt(connections, k) ==
    LET key == IF connections.idx = "StringIdx" THEN (IF k = 1 THEN "1" ELSE "2") ELSE k
    IN  IF key \in DOMAIN connections.map THEN Some(connections.map[key]) ELSE None

\* map_connections panics on Connection::Multiple
ImportPanics(bp) ==
    \E k \in 1..Len(bp) :
        /\ bp[k].connections.is_some
        /\ \E j \in 1..2 :
              LET p == ConnectionAt(bp[k].connections.value, j)
              IN  p.is_some /\ p.value.kind = "Multiple"

\* import_connections on one entity
ImportConnections(src, connections) ==
    LET p1 == ConnectionAt(connections, 1)
        p2 == ConnectionAt(connections, 2)
        first == IF p1.is_some
                 THEN [src EXCEPT !.connections[1] = AddPt(@, p1.value)] ELSE src
    IN  IF p2.is_some THEN [first EXCEPT !.connections[2] = AddPt(@, p2.value)] ELSE first

\* the third pass of from_blueprint
RECURSIVE ImportAllConnections(_, _)
ImportAllConnections(ents, bp) ==
    IF bp = <<>> THEN ents
    ELSE LET id == EntityIdOf(Head(bp).entity_number)
         IN  IF Head(bp).connections.is_some
             THEN ImportAllConnections(
                      [ents EXCEPT ![id] = ImportConnections(@, Head(bp).connections.value)],
                      Tail(bp))
             ELSE ImportAllConnections(ents, Tail(bp))

\* BlueprintEntities::from_blueprint, for a blueprint that does not make it panic
FromBlueprint(bp) ==
    ImportAllConnections(ImportAllNeighbours(CollectEntities(<<>>, bp), bp), bp)

\* sorted_entities of to_blueprint_entities: the ids in ascending order
RECURSIVE SortedIds(_)
SortedIds(S) ==
    IF S = {} THEN <<>>
    ELSE LET least == CHOOSE m \in S : \A x \in S : m <= x
         IN  <<least>> \o SortedIds(S \ {least})

\* id_to_new of to_blueprint_entities
IdToNew(ents) ==
    LET sorted == SortedIds(DOMAIN ents)
    IN  [id \in DOMAIN ents |-> CHOOSE i \in 1..Len(sorted) : sorted[i] = id]

\* id_to_new[..] panics on an id that is not a key of entities
ExportPanics(ents) ==
    \E id \in DOMAIN ents :
        \/ \E j \in 1..2 :
              /\ ents[id].connections[j].is_some
              /\ \E conn \in ents[id].connections[j].value :
                    conn.dest.entity_id \notin DOMAIN ents
        \/ /\ ents[id].neighbours.is_some
           /\ \E n \in ents[id].neighbours.value : n \notin DOMAIN ents

\* a set of numbers as the sequence .sorted() makes of it
RECURSIVE Sorted(_)
Sorted(S) ==
    IF S = {} THEN <<>>
    ELSE LET least == CHOOSE m \in S : \A x \in S : m <= x
         IN  <<least>> \o Sorted(S \ {least})

\* the key (entity_id, circuit_id) of sorted_by_key, None before Some(2)
ConnKey(conn) == 2 * conn.entity_id + (IF conn.circuit_id.is_some THEN 1 ELSE 0)

RECURSIVE SortedByConnKey(_)
SortedByConnKey(S) ==
    IF S = {} THEN <<>>
    ELSE LET least == CHOOSE m \in S : \A x \in S : ConnKey(m) <= ConnKey(x)
         IN  <<least>> \o SortedByConnKey(S \ {least})

\* map_pts of to_blueprint_entities
MapPts(pts, id_to_new) ==
    LET vec == SortedByConnKey({[entity_id |-> id_to_new[conn.dest.entity_id],
                                 circuit_id |-> IF conn.dest.circuit_id THEN Some(2) ELSE None]
                                : conn \in pts})
    IN  IF vec = <<>> THEN None ELSE Some(vec)

\* map_pt of to_blueprint_entities
MapPt(pt, id_to_new) ==
    LET all == IF pt.is_some THEN pt.value ELSE {}
        red == MapPts({conn \in all : conn.color = "Red"}, id_to_new)
        green == MapPts({conn \in all : conn.color # "Red"}, id_to_new)
    IN  IF ~red.is_some /\ ~green.is_some THEN None
        ELSE Some([kind |-> "Single", red |-> red, green |-> green])

\* the connections field written by to_blueprint_entities
ExportConnections(old_entity, id_to_new) ==
    IF ~old_entity.connections[1].is_some /\ ~old_entity.connections[2].is_some THEN None
    ELSE LET pt1 == MapPt(old_entity.connections[1], id_to_new)
             pt2 == MapPt(old_entity.connections[2], id_to_new)
             keys == (IF pt1.is_some THEN {"1"} ELSE {}) \cup (IF pt2.is_some THEN {"2"} ELSE {})
         IN  IF keys = {} THEN None
             ELSE Some([idx |-> "StringIdx",
                        map |-> [k \in keys |-> IF k = "1" THEN pt1.value ELSE pt2.value]])

\* BlueprintEntities::to_blueprint_entities, for entities that do not make it panic
ToBlueprintEntities(ents) ==
    LET sorted == SortedIds(DOMAIN ents)
        id_to_new == IdToNew(ents)
    IN  [i \in 1..Len(sorted) |->
            LET old_entity == ents[sorted[i]]
            IN  [entity_number |-> id_to_new[old_entity.id],
                 name |-> old_entity.data.name,
                 position |-> old_entity.data.position,
                 direction |-> old_entity.data.direction,
                 request_from_buffers |-> IF old_entity.data.request_from_buffers
                                          THEN Some(TRUE) ELSE None,
                 connections |-> ExportConnections(old_entity, id_to_new),
                 neighbours |-> IF old_entity.neighbours.is_some
                                THEN Some(Sorted({id_to_new[n] : n \in old_entity.neighbours.value}))
                                ELSE None]]

-----------------------------------------------------------------------------
(* Specification of the blueprint runs: a blueprint is read, cables and    *)
(* wires are added, the poles are dropped as optimize_poles drops them,    *)
(* and the entities are exported and read back.                            *)

FbpEntity(entity_number, name, x, request_from_buffers, neighbours, connections) ==
    [entity_number |-> entity_number, name |-> name, position |-> CenterAt(name, x, 0),
     direction |-> None, request_from_buffers |-> request_from_buffers,
     neighbours |-> neighbours, connections |-> connections]

ConnectionData(entity_id, circuit_id) == [entity_id |-> entity_id, circuit_id |-> circuit_id]
Single(red, green) == [kind |-> "Single", red |-> red, green |-> green]
Multiple == [kind |-> "Multiple"]
StringIdx(map) == [idx |-> "StringIdx", map |-> map]
NumberIdx(map) == [idx |-> "NumberIdx", map |-> map]

\* two poles numbered 2 and 5, only one of which lists the other, the second wired
\* to the first
GappedPoles ==
    << FbpEntity(2, "pole", 0, None, Some(<<5>>), None),
       FbpEntity(5, "pole", 1, Some(FALSE), None,
                 Some(StringIdx("2" :> Single(None, Some(<<ConnectionData(2, Some(1))>>))))) >>

\* two poles and a machine numbered 1..3; the machine is wired to both poles
WiredMachine ==
    << FbpEntity(1, "pole", 0, None, Some(<<2>>), None),
       FbpEntity(2, "pole", 1, None, Some(<<1>>), None),
       FbpEntity(3, "machine", 2, Some(TRUE), Some(<<>>),
                 Some(NumberIdx(1 :> Single(Some(<<ConnectionData(2, Some(2)),
                                                   ConnectionData(1, None)>>),
                                            Some(<<ConnectionData(1, None)>>))))) >>

\* a machine wired to and listing as neighbour an entity the blueprint does not hold
WiredToMissing ==
    << FbpEntity(1, "machine", 0, None, Some(<<4>>),
                 Some(StringIdx("1" :> Single(Some(<<ConnectionData(4, None)>>), None)))) >>

\* a connection point of the Multiple form
MultiplePoint ==
    << FbpEntity(1, "machine", 0, None, None, Some(StringIdx("1" :> Multiple))) >>

Blueprints == {GappedPoles, WiredMachine, WiredToMissing, MultiplePoint}

CablePairs == {<<1, 2>>, <<2, 3>>, <<5, 5>>, <<2, 4>>}
WirePoints == {[entity_id |-> 1, circuit_id |-> FALSE],
               [entity_id |-> 2, circuit_id |-> FALSE],
               [entity_id |-> 3, circuit_id |-> TRUE],
               [entity_id |-> 5, circuit_id |-> FALSE]}
WireColors == {"Red", "Green"}

InitBlueprint ==
    /\ InitNewModel
    /\ last_call = Untraced
    /\ NoBlueprint

Read(ents) == [read |-> TRUE, map |-> ents]

\* BlueprintEntities::from_blueprint
ReadBlueprint(bp) ==
    /\ ~panicked
    /\ ~entities.read
    /\ IF ImportPanics(bp)
       THEN panicked' = TRUE /\ UNCHANGED entities
       ELSE entities' = Read(FromBlueprint(bp)) /\ UNCHANGED panicked
    /\ UNCHANGED <<modelVars, windowVars, solverVars, issued, last_call, exported>>

\* BlueprintEntities::add_cable_connection
AddCable(entity1, entity2) ==
    /\ ~panicked
    /\ entities.read
    /\ entities' = Read(EntitiesAddCableConnection(entities.map, entity1, entity2))
    /\ UNCHANGED <<modelVars, windowVars, solverVars, panicked, issued, last_call, exported>>

\* BlueprintEntities::add_wire_connection
AddWire(p1, p2, color) ==
    /\ ~panicked
    /\ entities.read
    /\ entities' = Read(EntitiesAddWireConnection(entities.map, p1, p2, color))
    /\ UNCHANGED <<modelVars, windowVars, solverVars, panicked, issued, last_call, exported>>

\* optimize_poles: bp2.entities.retain(|_, entity| type_ != "electric-pole")
RetainNonPoles(ents) ==
    [id \in {k \in DOMAIN ents : Prototypes[ents[k].data.name].type_ # "electric-pole"} |->
        ents[id]]

DropPoles ==
    /\ ~panicked
    /\ entities.read
    /\ entities' = Read(RetainNonPoles(entities.map))
    /\ UNCHANGED <<modelVars, windowVars, solverVars, panicked, issued, last_call, exported>>

\* to_blueprint_entities, then from_blueprint on what it returned
RoundTrip ==
    /\ ~panicked
    /\ entities.read
    /\ IF ExportPanics(entities.map)
       THEN /\ panicked' = TRUE
            /\ exported' = [status |-> "panic", of |-> entities.map]
       ELSE LET bp == ToBlueprintEntities(entities.map)
            IN  /\ exported' = [status |-> "ok", of |-> entities.map, blueprint |-> bp,
                                back |-> FromBlueprint(bp)]
                /\ UNCHANGED panicked
    /\ UNCHANGED <<modelVars, windowVars, solverVars, issued, last_call, entities>>

NextBlueprint ==
    \/ \E bp \in Blueprints : ReadBlueprint(bp)
    \/ \E pair \in CablePairs : AddCable(pair[1], pair[2])
    \/ \E p1, p2 \in WirePoints, color \in WireColors : AddWire(p1, p2, color)
    \/ DropPoles
    \/ RoundTrip

SpecBlueprint == InitBlueprint /\ [][NextBlueprint]_vars

-----------------------------------------------------------------------------
(* Claims about the blueprint entities *)

\* the entities renumbered 1..n in ascending order of id, every neighbour and every
\* connection destination rewritten by the same renumbering
Renumbered(ents) ==
    LET sorted == SortedIds(DOMAIN ents)
        new == [id \in DOMAIN ents |-> CHOOSE i \in 1..Len(sorted) : sorted[i] = id]
        rewrite(pt) == IF pt.is_some
                       THEN Some({[conn EXCEPT !.dest.entity_id = new[@]] : conn \in pt.value})
                       ELSE None
    IN  [i \in 1..Len(sorted) |->
            LET old == ents[sorted[i]]
            IN  [id |-> i,
                 data |-> old.data,
                 connections |-> <<rewrite(old.connections[1]), rewrite(old.connections[2])>>,
                 neighbours |-> IF old.neighbours.is_some
                                THEN Some({new[n] : n \in old.neighbours.value})
                                ELSE None]]

\* C16: exporting any BlueprintEntities and reading the export back gives the
\* same entities up to the renumbering of ids to 1..n in ascending order of old
\* id, with every neighbour and circuit-connection reference rewritten by that
\* renumbering; entities already numbered 1..n come back unchanged.
C16_RoundTrip ==
    exported.status # "none" =>
        /\ exported.status = "ok"
        /\ exported.back = Renumbered(exported.of)
        /\ (DOMAIN exported.of = 1..Cardinality(DOMAIN exported.of)
               => exported.back = exported.of)

-----------------------------------------------------------------------------
(* optimize_poles (main.rs): the blueprint is read into BlueprintEntities  *)
(* and a BpModel, candidates are placed, the set cover is solved, the      *)
(* selected poles are connected, and the result is merged back into the    *)
(* model and the blueprint.                                                *)

\* WorldEntity::from_bp_entity
FromBpEntity(data) ==
    WorldEntity(data.name, data.position,
                IF data.direction.is_some THEN data.direction.value ELSE 0)

\* the entities of a BlueprintEntities as BpModel::from_bp_entities reads them
BpEntitiesOf(ents) ==
    [id \in DOMAIN ents |->
        [data |-> FromBpEntity(ents[id].data),
         neighbours |-> IF ents[id].neighbours.is_some
                        THEN SomeNeighbours(ents[id].neighbours.value)
                        ELSE NoNeighbours]]

\* BpModel::get_bounding_box: the box of the keys of by_tile, max raised by (1, 1)
GetBoundingBox(m) ==
    LET keys == DOMAIN m.by_tile
        xs == {t[1] : t \in keys}
        ys == {t[2] : t \in keys}
        least(S) == CHOOSE v \in S : \A w \in S : v <= w
    IN  IF keys = {} THEN Box(0, 0, 1, 1)
        ELSE Box(least(xs), least(ys), SetMax(xs) + 1, SetMax(ys) + 1)

\* BpModel::remove_all_poles
RemoveAllPoles(m) == RetainM(m, "not_pole")

\* the first loop of add_from_pole_graph: add_no_overlap for every node, in index
\* order; added_ids keeps what each call returned
RECURSIVE AddGraphNodes(_, _, _, _)
AddGraphNodes(m, graph, k, added_ids) ==
    IF k > Len(graph.nodes) THEN [model |-> m, added_ids |-> added_ids]
    ELSE LET placed == AddNoOverlapM(m, graph.nodes[k].entity)
         IN  AddGraphNodes(placed, graph, k + 1,
                           Append(added_ids, IF placed # m THEN Some(m.next_id) ELSE None))

\* the second loop of add_from_pole_graph: a cable for every edge whose two ends
\* were added
RECURSIVE AddGraphEdges(_, _, _, _)
AddGraphEdges(m, graph, k, added_ids) ==
    IF k > Len(graph.edges) \/ m.panicked THEN m
    ELSE LET a_id == added_ids[graph.edges[k].a]
             b_id == added_ids[graph.edges[k].b]
         IN  AddGraphEdges(IF a_id.is_some /\ b_id.is_some
                           THEN AddCableConnectionM(m, a_id.value, b_id.value) ELSE m,
                           graph, k + 1, added_ids)

\* BpModel::add_from_pole_graph
AddFromPoleGraph(m, graph) ==
    LET nodes == AddGraphNodes(m, graph, 1, <<>>)
    IN  [model |-> AddGraphEdges(nodes.model, graph, 1, nodes.added_ids),
         added_ids |-> nodes.added_ids]

\* BlueprintEntityData::new(name, position, direction): every other field empty
NewBlueprintEntityData(name, position, direction) ==
    [name |-> name, position |-> position, direction |-> direction,
     request_from_buffers |-> FALSE]

\* BlueprintEntities::add_entity: the entity is stored under the number after the
\* largest one in use
AddEntity(ents, data) ==
    LET id == (IF DOMAIN ents = {} THEN 0 ELSE SetMax(DOMAIN ents)) + 1
    IN  [k \in (DOMAIN ents) \cup {id} |->
            IF k = id THEN NewBlueprintEntity(id, data) ELSE ents[k]]

\* the first pass of add_poles_from: an entity for every pole of the model, taken
\* in the order the model's HashMap yields them
RECURSIVE AddPoleEntities(_, _, _, _)
AddPoleEntities(ents, m, order, id_map) ==
    IF order = <<>> THEN [entities |-> ents, id_map |-> id_map]
    ELSE LET entity == m.all_entities[Head(order)].entity
             data == NewBlueprintEntityData(entity.prototype, entity.position,
                         IF entity.direction # 0 THEN Some(entity.direction) ELSE None)
             added == AddEntity(ents, data)
             id == CHOOSE k \in DOMAIN added : k \notin DOMAIN ents
         IN  AddPoleEntities(added, m, Tail(order), (Head(order) :> id) @@ id_map)

\* BlueprintEntities::add_poles_from
AddPolesFrom(ents, m, order) ==
    LET first == AddPoleEntities(ents, m, order, <<>>)
        id_map == first.id_map
    IN  [entities |->
            [k \in DOMAIN first.entities |->
                IF \E id \in DOMAIN id_map : id_map[id] = k
                THEN LET id == CHOOSE i \in DOMAIN id_map : id_map[i] = k
                     IN  [first.entities[k] EXCEPT !.neighbours =
                             Some({id_map[n] : n \in m.all_entities[id].extra.connections
                                                      \cap DOMAIN id_map})]
                ELSE first.entities[k]],
         id_map |-> id_map]

-----------------------------------------------------------------------------
(* Specification of the optimize_poles runs, one stage at a time.          *)

Unwired(entity_number, name, x, y) ==
    [entity_number |-> entity_number, name |-> name, position |-> CenterAt(name, x, y),
     direction |-> None, request_from_buffers |-> None, neighbours |-> None,
     connections |-> None]

\* a machine at each end of a strip two tiles high, the right one behind a splitter
StripBlueprint ==
    << Unwired(1, "machine", 0, 0),
       Unwired(2, "splitter", 4, 0),
       Unwired(3, "machine", 5, 1) >>

\* a machine with a wired pair of poles beside it
PoledBlueprint ==
    << Unwired(1, "machine", 0, 0),
       [Unwired(2, "pole", 1, 0) EXCEPT !.neighbours = Some(<<3>>)],
       [Unwired(3, "pole", 2, 0) EXCEPT !.neighbours = Some(<<2>>)] >>

\* two machines in a row with two free tiles between them
RowBlueprint ==
    << Unwired(1, "machine", 0, 0),
       Unwired(2, "machine", 3, 0) >>

\* two machines in a row with three free tiles between them
WideBlueprint ==
    << Unwired(1, "machine", 0, 0),
       Unwired(2, "machine", 4, 0) >>

\* a splitter and a wide machine with two free rows of two tiles between them
BlockBlueprint ==
    << Unwired(1, "splitter", 0, 0),
       Unwired(2, "widemachine", 0, 3) >>

\* a pole and a splitter beside it whose red wire ends at the pole
WiredBlueprint ==
    << Unwired(1, "pole", 0, 0),
       [Unwired(2, "splitter", 1, 0) EXCEPT
           !.connections = Some(StringIdx("1" :> Single(Some(<<ConnectionData(1, None)>>), None)))] >>

\* the calls of optimize_poles: the blueprint, whether --remove-poles names the
\* prototype "pole", and the prototypes of --use-poles
OptimizeInputs ==
    {[bp |-> StripBlueprint, remove_poles |-> FALSE, use_poles |-> <<"bigpole">>],
     [bp |-> RowBlueprint, remove_poles |-> FALSE, use_poles |-> <<"pole">>],
     [bp |-> RowBlueprint, remove_poles |-> FALSE, use_poles |-> <<"mediumpole">>],
     [bp |-> WideBlueprint, remove_poles |-> FALSE, use_poles |-> <<"pole">>],
     [bp |-> WideBlueprint, remove_poles |-> FALSE, use_poles |-> <<"mediumpole">>],
     [bp |-> PoledBlueprint, remove_poles |-> TRUE, use_poles |-> <<"pole">>],
     [bp |-> PoledBlueprint, remove_poles |-> FALSE, use_poles |-> <<"pole">>],
     [bp |-> WiredBlueprint, remove_poles |-> FALSE, use_poles |-> <<"pole">>],
     [bp |-> BlockBlueprint, remove_poles |-> FALSE, use_poles |-> <<"pole", "bigpole">>]}

InitOptimize ==
    /\ InitNewModel
    /\ last_call = NoCall
    /\ NoBlueprint

\* optimize_poles up to the call of solve
StartOptimize(input) ==
    /\ ~panicked
    /\ last_call = NoCall
    /\ LET bp2 == FromBlueprint(input.bp)
           read == FromBpEntities(BpEntitiesOf(bp2), Ascending(DOMAIN bp2))
           model == IF input.remove_poles THEN RetainM(read, "not_listed") ELSE read
       IN  /\ entities' = Read(bp2)
           /\ SetModel(model)
    /\ LET bounding_box == GetBoundingBox(Model')
           with_candidates == WithAllCandidatePoles(Model', bounding_box, input.use_poles)
       IN  pole_graph' = GetMaximallyConnectedPoleGraph(
                            with_candidates, Ascending(DOMAIN with_candidates.all_entities))
    /\ cand_graph' = ToCandPoleGraph(Model', pole_graph')
    /\ last_call' = [op |-> "optimize_poles", input |-> input]
    /\ UNCHANGED <<windowVars, solution, connectorVars, issued, exported>>

\* PrettyPoleConnector::default().connect_poles(&sol_poles) is entered
ConnectSolution ==
    /\ ~panicked
    /\ solution.status = "ok"
    /\ conn_stage = "idle"
    /\ conn_graph' = solution.graph
    /\ res_graph' = NewResult(solution.graph)
    /\ sort_edges' = InitialHeap(solution.graph)
    /\ uf' = NewUnionFind(Len(solution.graph.nodes))
    /\ conn_stage' = "mst"
    /\ UNCHANGED <<modelVars, windowVars, pole_graph, cand_graph, solution, pretty_edges,
                   first_result, panicked, issued, last_call, blueprintVars>>

\* optimize_poles from remove_all_poles on
MergeSolution ==
    /\ ~panicked
    /\ conn_stage = "done"
    /\ exported = NoExport
    /\ LET merged == AddFromPoleGraph(RemoveAllPoles(Model), res_graph)
           poles == {id \in DOMAIN merged.model.all_entities :
                        IsPoleProto(merged.model.all_entities[id].entity.prototype)}
       IN  \E order \in Perms(poles) :
              LET bp2 == AddPolesFrom(RetainNonPoles(entities.map), merged.model, order)
                  \* id_to_new[..] in to_blueprint_entities may panic
                  export_panics == ExportPanics(bp2.entities)
              IN  /\ SetModel([merged.model EXCEPT !.panicked = @ \/ export_panics])
                  /\ entities' = Read(bp2.entities)
                  /\ exported' = IF export_panics
                                 THEN [status |-> "panic", of |-> bp2.entities]
                                 ELSE [status |-> "ok", of |-> bp2.entities,
                                       blueprint |-> ToBlueprintEntities(bp2.entities),
                                       added_ids |-> merged.added_ids,
                                       id_map |-> bp2.id_map]
    /\ UNCHANGED <<windowVars, pole_graph, cand_graph, solution, connectorVars, issued, last_call>>

NextOptimize ==
    \/ \E input \in OptimizeInputs : StartOptimize(input)
    \/ Solve(NoConnectivity)
    \/ ConnectSolution
    \/ \E entry \in sort_edges : MstPop(entry)
    \/ StartPretty
    \/ PrettyStep
    \/ FinishConnect
    \/ MergeSolution

SpecOptimize == InitOptimize /\ [][NextOptimize]_vars

-----------------------------------------------------------------------------
(* Claims about optimize_poles *)

\* the entities of the input blueprint that are not electric poles
InputNonPoles ==
    {k \in 1..Len(last_call.input.bp) :
        Prototypes[last_call.input.bp[k].name].type_ # "electric-pole"}

\* the poles of the output model and of the output blueprint
OutputModelPoles ==
    {id \in DOMAIN all_entities : IsPoleProto(all_entities[id].entity.prototype)}
OutputBlueprintPoles ==
    {k \in 1..Len(exported.blueprint) : IsPoleProto(exported.blueprint[k].name)}

\* the output blueprint entity made for the pole id of the output model
BlueprintNumberOf(id) == IdToNew(exported.of)[exported.id_map[id]]

\* C15: after optimize_poles the output model and blueprint hold every non-pole
\* entity of the input and exactly one pole for every node of the pretty subgraph,
\* no other pole, and two output poles are cable neighbours exactly when their
\* nodes are joined by an edge of the pretty subgraph, in the model and, through
\* the id map of add_poles_from, in the blueprint.
C15_OutputHoldsSolution ==
    exported.status = "ok" =>
        /\ \A k \in InputNonPoles :
              LET e == last_call.input.bp[k]
              IN  /\ \E id \in DOMAIN all_entities :
                        /\ all_entities[id].entity.prototype = e.name
                        /\ all_entities[id].entity.position = e.position
                  /\ \E j \in 1..Len(exported.blueprint) :
                        /\ exported.blueprint[j].name = e.name
                        /\ exported.blueprint[j].position = e.position
        /\ \A n \in 1..Len(res_graph.nodes) :
              /\ exported.added_ids[n].is_some
              /\ exported.added_ids[n].value \in OutputModelPoles
              /\ all_entities[exported.added_ids[n].value].entity = res_graph.nodes[n].entity
              /\ exported.added_ids[n].value \in DOMAIN exported.id_map
        /\ Cardinality(OutputModelPoles) = Len(res_graph.nodes)
        /\ Cardinality(OutputBlueprintPoles) = Len(res_graph.nodes)
        /\ \A n, o \in 1..Len(res_graph.nodes) :
              (exported.added_ids[n].is_some /\ exported.added_ids[o].is_some) =>
                  LET a == exported.added_ids[n].value
                      b == exported.added_ids[o].value
                      listed == exported.blueprint[BlueprintNumberOf(a)].neighbours
                  IN  /\ ContainsEdge(res_graph, n, o)
                            <=> b \in all_entities[a].extra.connections
                      /\ ContainsEdge(res_graph, n, o)
                            <=> (listed.is_some /\ \E i \in 1..Len(listed.value) :
                                     listed.value[i] = BlueprintNumberOf(b))

\* C29: when optimize_poles has dropped the electric poles of the input from the
\* blueprint entities and added the poles of the solution, every id that a
\* remaining entity names, as a cable neighbour or as the destination of a red or
\* green circuit connection, is the id of an entity that is exported, so that
\* to_blueprint_entities never looks up a removed id.
C29_NoRemovedIdLookedUp ==
    exported # NoExport => ~ExportPanics(exported.of)

\* two entities whose footprints share a tile
FootprintsOverlap(e1, e2) == EntityTiles(e1) \cap EntityTiles(e2) # {}

\* C25: no assignment that is feasible for the problem solve builds selects two
\* candidate poles whose footprints share a tile.
C25_SelectedDoNotOverlap ==
    solution.status = "ok" =>
        \A i, j \in 1..Len(cand_graph.nodes) :
            (i # j /\ solution.x[i] = 1 /\ solution.x[j] = 1) =>
                ~FootprintsOverlap(cand_graph.nodes[i].entity, cand_graph.nodes[j].entity)

\* the ids BpModel::powered_entities yields for the pole of a node
PoweredByQuery(node) ==
    LET ids == PoweredEntities(Model, node.entity.position,
                               Prototypes[node.entity.prototype].pole_data)
    IN  {ids[k] : k \in 1..Len(ids)}

\* C24: for every node of the candidate graph, the powered_entities set that
\* to_cand_pole_graph computed with the supply-area window is the set of ids that
\* BpModel::powered_entities returns for the node's position and pole data on the
\* same model.
C24_WindowEqualsQuery ==
    (cand_graph.built /\ exported = NoExport) =>
        \A k \in 1..Len(cand_graph.nodes) :
            cand_graph.nodes[k].powered_entities = PoweredByQuery(cand_graph.nodes[k])

\* C22: solve with the connectivity heuristic never aborts the process, whatever
\* the candidate graph (one without pole nodes and one with poles the roots do
\* not reach included): the run ends in an Ok or an Err result, and a pole without
\* a Dijkstra distance gets no connectivity constraint.
C22_ConnectivityNeverAborts ==
    cand_graph.built =>
        /\ ~panicked
        /\ (solution.status = "ok" /\ solution.connectivity.is_some) =>
              \A c \in ConnectivityConstraints(cand_graph, solution.connectivity.pt,
                                               solution.pole1) :
                  c.pole \in DOMAIN SolvedDistances

\* the root clique of the candidate graph for the point pt, as a set
RootSet(pt) ==
    LET root_list == FindRootPoles(cand_graph, pt)
    IN  {root_list[k] : k \in 1..Len(root_list)}

\* the root clique for pt is a non-empty maximal clique holding a nearest pole
IsNearestMaximalClique(pt) ==
    LET all == 1..Len(cand_graph.nodes)
        roots == RootSet(pt)
    IN  /\ roots # {}
        /\ roots \subseteq all
        /\ \A a, b \in roots : a # b => ContainsEdge(cand_graph, a, b)
        /\ \E r \in roots : \A n \in all : RootKey(cand_graph, r, pt) <= RootKey(cand_graph, n, pt)
        /\ \A n \in all \ roots : \E r \in roots : ~ContainsEdge(cand_graph, r, n)

\* C28 as stated: for a candidate graph with nodes find_root_poles yields a
\* non-empty maximal clique that holds a pole nearest to the point, and the
\* Dijkstra run from any root gives every root the distance 0 and every other
\* node a distance above 0.
C28_EveryNonRootHasDistance ==
    (cand_graph.built /\ cand_graph.nodes # <<>>) =>
        \A c \in Connectivities \ {NoConnectivity} :
            /\ IsNearestMaximalClique(c.pt)
            /\ \A pole1 \in RootSet(c.pt) :
                  LET distances == Dijkstra(cand_graph, RootSet(c.pt), pole1)
                  IN  /\ \A r \in RootSet(c.pt) : r \in DOMAIN distances /\ distances[r] = 0
                      /\ \A n \in (1..Len(cand_graph.nodes)) \ RootSet(c.pt) :
                            n \in DOMAIN distances /\ distances[n] > 0

\* C28 amended: as above, with a distance above 0 for every other node the run
\* reaches; a node the roots do not reach gets no distance.
C28_RootsAtZeroOthersAbove ==
    (cand_graph.built /\ cand_graph.nodes # <<>>) =>
        \A c \in Connectivities \ {NoConnectivity} :
            /\ IsNearestMaximalClique(c.pt)
            /\ \A pole1 \in RootSet(c.pt) :
                  LET distances == Dijkstra(cand_graph, RootSet(c.pt), pole1)
                  IN  /\ \A r \in RootSet(c.pt) : r \in DOMAIN distances /\ distances[r] = 0
                      /\ \A n \in (1..Len(cand_graph.nodes)) \ RootSet(c.pt) :
                            n \in DOMAIN distances => distances[n] > 0

\* a solved run with connectivity whose root clique has two poles, with a pole
\* outside the clique that the Dijkstra run reaches and one that it does not
C28_Witness ==
    /\ solution.status = "ok"
    /\ solution.connectivity.is_some
    /\ Cardinality(SolvedRoots) >= 2
    /\ \E n \in (1..Len(cand_graph.nodes)) \ SolvedRoots :
          n \in DOMAIN SolvedDistances /\ SolvedDistances[n] > 0
    /\ \E n \in 1..Len(cand_graph.nodes) : n \notin DOMAIN SolvedDistances

====
